---- MODULE Spec2Model ----
(***************************************************************************)
(* Trading control plane of the Kalshi bot: OrderManager (order            *)
(* lifecycle), RiskManager (seven gates, positions, three-layer circuit    *)
(* breaker), the KalshiClient mutation guards and the operator routes.     *)
(*                                                                         *)
(* Units: money is in cents, prices are whole cents (1..99), thresholds    *)
(* are whole percents, dates are day numbers with day 0 a Monday.          *)
(* A Position keeps cost = quantity * average_entry_price (cents), so the  *)
(* weighted-average entry of the code is cost / quantity, exactly.         *)
(***************************************************************************)
EXTENDS Integers, Sequences, FiniteSets, TLC

VARIABLES
    rm,               \* RiskManager fields
    positions,        \* RiskManager.positions : ticker -> Position
    position_keys,    \* the insertion order of RiskManager.positions
    trades,           \* every Trade built by execute_signal, by internal id
    active_orders,    \* OrderManager.active_orders (keys; insertion order = id order)
    completed_orders, \* OrderManager.completed_orders (list of ids)
    dry_run,          \* OrderManager.dry_run
    fills_tick,       \* _monitor_loop's local counter
    running,          \* TradingBot.running
    tasks,            \* the trading and monitor tasks, OrderManager._running,
                      \* and where a call of TradingBot.stop stands
    client,           \* KalshiClient's rate limiter: the loop's clock, callers, requests
    strat,            \* the strategy's last call: its inputs and what it returned
    call,             \* one call of KalshiClient._request_with_retry
    flight,           \* the placement the trading task has in flight (awaiting the POST response)
    enabled,          \* strategy.enabled
    exch,             \* the exchange's orders : order id -> order
    fills,            \* the exchange's fills feed not yet fetched
    market,           \* the exchange's market per ticker
    today,            \* datetime.utcnow().date()
    obs,              \* what the last step did: operation, gate result, requests sent
    hist              \* history: trades filled by reconciliation, operator halt pending,
                      \* trades whose fill was applied to positions (once, more often)

vars == <<rm, positions, position_keys, trades, active_orders, completed_orders, dry_run,
          fills_tick, running, tasks, client, strat, call, flight, enabled, exch, fills, market, today, obs, hist>>

----------------------------------------------------------------------------
(* Bounds of the model *)

MaxTrades == 2
MaxLiveTrades == 1
MaxOrders == 2
FirstDay == 5
MaxDays == 3
MaxExposure == 20000
MaxLoss == 60000
MaxGain == 380000

(* Program constants *)

Bankroll == 10000
position_ceiling_pct == 2
max_concurrent_positions == 5
circuit_breaker_loss_threshold == 5
weekly_drawdown_cap == 10
circuit_breaker_drawdown_threshold == 15
min_edge_threshold == 2
uncertainty_buffer == 3
fills_interval == 10

Tickers == {"T1", "T2"}
\* The markets of the gate specification: max_concurrent_positions of them.
GateTickers == <<"T1", "T2", "T3", "T4", "T5">>
\* (side, quantity, price in cents) a signal may recommend
SignalChoices == {<<"no", 4000, 5>>, <<"yes", 228, 88>>}
\* (is_valid, edge in percent, confidence above the minimum) of a signal
SignalQualities == {<<TRUE, 8, TRUE>>, <<FALSE, 8, TRUE>>, <<TRUE, 4, TRUE>>,
                    <<TRUE, 8, FALSE>>}
AmendQuantities == {100}
AmendPrices == {500}
DecreaseBy == {2000}
\* (mode, risk_acknowledged, confirmed_bankroll) of a POST /mode request
ModeRequests == {<<"live", TRUE, Bankroll>>, <<"live", FALSE, Bankroll>>,
                 <<"live", TRUE, 0>>, <<"paper", FALSE, 0>>, <<"dry_run", FALSE, 0>>,
                 <<"real", TRUE, Bankroll>>}
\* The requests among them that switch to live and back to paper
ModeSwitches == {<<"live", TRUE, Bankroll>>, <<"paper", FALSE, 0>>}
DecreaseTo == {0}

TerminalStates == {"filled", "cancelled", "rejected", "failed"}

NoPos == [side |-> "none", quantity |-> 0, cost |-> 0]
NoOrder == [status |-> "none", count |-> 0, fill_count |-> 0, price |-> 0, side |-> "none"]
Null == 0 - 1
NoCheck == [called |-> FALSE]
NoPlace == [outcome |-> "-", exchange_order |-> 0, requests |-> 0]
NoMode == [asked |-> FALSE]

BankrollCents == Bankroll * 100

Max(a, b) == IF a >= b THEN a ELSE b
Min(a, b) == IF a <= b THEN a ELSE b
Abs(a) == IF a < 0 THEN 0 - a ELSE a

----------------------------------------------------------------------------
(* RiskManager.  The operators take and return the world w, a record of    *)
(* the program's variables, as the methods mutate the objects.             *)

_current_week_monday(d) == d - (d % 7)

reset_circuit_breaker(w) ==
    IF w.rm.circuit_breaker_active
    THEN [w EXCEPT !.rm.circuit_breaker_active = FALSE,
                   !.rm.circuit_breaker_reason = ""]
    ELSE w

trigger_circuit_breaker(w, reason) ==
    IF ~w.rm.circuit_breaker_active
    THEN [w EXCEPT !.rm.circuit_breaker_active = TRUE,
                   !.rm.circuit_breaker_reason = reason]
    ELSE w

\* The day rollover clearing the breaker whatever latched it.
_maybe_reset_daily_any_reason(w) ==
    IF w.today > w.rm.daily_date
    THEN reset_circuit_breaker([w EXCEPT !.rm.daily_date = w.today,
                                         !.rm.daily_realized_pnl = 0])
    ELSE w

_maybe_reset_daily(w) ==
    IF w.today > w.rm.daily_date
    THEN LET w1 == [w EXCEPT !.rm.daily_date = w.today,
                             !.rm.daily_realized_pnl = 0]
         IN IF w1.rm.circuit_breaker_active
               /\ w1.rm.circuit_breaker_reason = "Layer-1"
            THEN reset_circuit_breaker(w1)
            ELSE w1
    ELSE w

_maybe_reset_weekly(w) ==
    LET monday == _current_week_monday(w.today) IN
    IF monday > w.rm.weekly_start_date
    THEN LET eq == BankrollCents + w.rm.daily_realized_pnl
             w1 == [w EXCEPT !.rm.weekly_start_date = monday,
                             !.rm.weekly_start_equity = eq,
                             !.rm.weekly_peak_equity = eq]
         IN IF w1.rm.circuit_breaker_active
               /\ w1.rm.circuit_breaker_reason = "Layer-2"
            THEN reset_circuit_breaker(w1)
            ELSE w1
    ELSE w

\* The drawdown is the fraction num / den; the weekly peak ratchets up.
_compute_weekly_drawdown(w) ==
    IF w.rm.weekly_peak_equity <= 0
    THEN [w |-> w, num |-> 0, den |-> 1]
    ELSE LET current_equity == BankrollCents + w.rm.daily_realized_pnl
             peak == Max(w.rm.weekly_peak_equity, current_equity)
         IN [w |-> [w EXCEPT !.rm.weekly_peak_equity = peak],
             num |-> Max(0, peak - current_equity), den |-> peak]

TotalExposure(pos) ==
    LET RECURSIVE Sum(_)
        Sum(S) == IF S = {} THEN 0
                  ELSE LET t == CHOOSE t \in S : TRUE
                       IN pos[t].cost + Sum(S \ {t})
    IN Sum(DOMAIN pos)

OpenTickers(pos) == {t \in DOMAIN pos : pos[t].quantity > 0}

Refuse(x, g, why) == [w |-> x, ok |-> FALSE, gate |-> g, reason |-> why]

\* Gate 2: the position ceiling.
CeilingFails(position_value) == position_value > Bankroll * position_ceiling_pct

\* Gate 3 with > for >=.
ConcurrentFails_strict(w) ==
    Cardinality(OpenTickers(w.positions)) > max_concurrent_positions

\* Gate 3: len(self.positions) >= max_concurrent_positions.
ConcurrentFails(w) ==
    Cardinality(OpenTickers(w.positions)) >= max_concurrent_positions

\* Gate 4: the daily loss cap.
DailyLossFails(w) ==
    /\ w.rm.daily_realized_pnl < 0
    /\ Abs(w.rm.daily_realized_pnl) >= Bankroll * circuit_breaker_loss_threshold

\* Gate 5: the weekly drawdown cap, on the drawdown wd = num / den.
WeeklyDrawdownFails(wd) == wd.num * 100 >= weekly_drawdown_cap * wd.den

\* Gate 6: the total exposure.
ExposureFails(w, position_value) ==
    TotalExposure(w.positions) + position_value
        > Bankroll * position_ceiling_pct * max_concurrent_positions

\* Gate 7 never refusing.
SameTickerFails_never(w, ticker) == FALSE

\* Gate 7: ticker in self.positions.
SameTickerFails(w, ticker) == w.positions[ticker].quantity > 0

\* Gates 2 to 7, on the world w1 the resets left.
GatesAfterBreaker(w1, ticker, quantity, price) ==
    LET position_value == quantity * price
        Gates5To7(wd) ==
            IF WeeklyDrawdownFails(wd) THEN Refuse(wd.w, 5, "weekly")
            ELSE IF ExposureFails(wd.w, position_value) THEN Refuse(wd.w, 6, "exposure")
            ELSE IF SameTickerFails(wd.w, ticker) THEN Refuse(wd.w, 7, "ticker")
            ELSE [w |-> wd.w, ok |-> TRUE, gate |-> 0, reason |-> ""]
    IN IF CeilingFails(position_value) THEN Refuse(w1, 2, "ceiling")
       ELSE IF ConcurrentFails(w1) THEN Refuse(w1, 3, "concurrent")
       ELSE IF DailyLossFails(w1) THEN Refuse(w1, 4, "daily")
       ELSE Gates5To7(_compute_weekly_drawdown(w1))

\* The gate without its breaker test.
check_trade_allowed_no_breaker_gate(w, ticker, quantity, price) ==
    GatesAfterBreaker(_maybe_reset_weekly(_maybe_reset_daily(w)),
                      ticker, quantity, price)

\* Returns the world (resets applied, weekly peak ratcheted), ok, and the
\* number of the refusing gate (0 when allowed) with the reason it carries.
check_trade_allowed(w, ticker, quantity, price) ==
    LET Gates(w1) ==
            IF w1.rm.circuit_breaker_active
            THEN Refuse(w1, 1, w1.rm.circuit_breaker_reason)
            ELSE GatesAfterBreaker(w1, ticker, quantity, price)
    IN Gates(_maybe_reset_weekly(_maybe_reset_daily(w)))

validate_signal_edge(edge, confidence_ok) ==
    /\ Abs(edge) >= min_edge_threshold + uncertainty_buffer
    /\ confidence_ok

\* The breaker thresholds without Layer 1.
_check_circuit_breakers_no_layer1(w, daily_loss, wnum, wden, snum, sden) ==
    IF w.rm.circuit_breaker_active THEN w
    ELSE IF wnum * 100 >= weekly_drawdown_cap * wden
    THEN trigger_circuit_breaker(w, "Layer-2")
    ELSE IF snum * 100 >= circuit_breaker_drawdown_threshold * sden
    THEN trigger_circuit_breaker(w, "Layer-3")
    ELSE w

_check_circuit_breakers(w, daily_loss, wnum, wden, snum, sden) ==
    IF w.rm.circuit_breaker_active THEN w
    ELSE IF BankrollCents > 0 /\ daily_loss < 0
            /\ Abs(daily_loss) * 100 >= circuit_breaker_loss_threshold * BankrollCents
    THEN trigger_circuit_breaker(w, "Layer-1")
    ELSE IF wnum * 100 >= weekly_drawdown_cap * wden
    THEN trigger_circuit_breaker(w, "Layer-2")
    ELSE IF snum * 100 >= circuit_breaker_drawdown_threshold * sden
    THEN trigger_circuit_breaker(w, "Layer-3")
    ELSE w

\* update_position_price has no caller, so unrealized P&L is always 0.
_recompute_metrics(w) ==
    LET daily_pnl == w.rm.daily_realized_pnl
        daily_loss == Min(0, daily_pnl)
        current_equity == BankrollCents + daily_pnl
        speak == Max(w.rm.session_peak_equity, current_equity)
        w1 == [w EXCEPT !.rm.session_peak_equity = speak]
        snum == IF speak > 0 THEN speak - current_equity ELSE 0
        sden == IF speak > 0 THEN speak ELSE 1
        Breakers(wd) ==
            _check_circuit_breakers(wd.w, daily_loss, wd.num, wd.den, snum, sden)
    IN Breakers(_compute_weekly_drawdown(w1))

_update_position_from_fill(w, id) ==
    LET trade == w.trades[id]
        qty == trade.filled_quantity
        avg_price == IF trade.average_fill_price # 0
                     THEN trade.average_fill_price ELSE trade.price
        pos == w.positions[trade.ticker]
    IN IF qty <= 0 THEN w
       ELSE IF pos.quantity = 0
       THEN [w EXCEPT !.positions[trade.ticker] =
                [side |-> trade.side, quantity |-> qty, cost |-> qty * avg_price],
                      !.position_keys = Append(@, trade.ticker),
                      !.registered = @ \cup {trade.ticker},
                      !.reapplied = IF id \in w.applied THEN @ \cup {id} ELSE @,
                      !.applied = @ \cup {id}]
       ELSE [w EXCEPT !.positions[trade.ticker] =
                [side |-> pos.side, quantity |-> pos.quantity + qty,
                 cost |-> pos.cost + qty * avg_price],
                      !.registered = @ \cup {trade.ticker},
                      !.reapplied = IF id \in w.applied THEN @ \cup {id} ELSE @,
                      !.applied = @ \cup {id}]

\* Trade.pnl is never set by the program, so no realized P&L is added here.
record_trade(w, id) ==
    LET Recorded(w1) ==
            _recompute_metrics(
                IF w1.trades[id].status \in {"filled", "partially_filled"}
                THEN _update_position_from_fill(w1, id)
                ELSE w1)
    IN Recorded(_maybe_reset_weekly(_maybe_reset_daily(w)))

set_open_orders_count(w, count) == [w EXCEPT !.rm.open_orders_count = count]

\* The daily realized loss has reached the daily loss cap.
DailyLossAtCap(r) ==
    /\ r.daily_realized_pnl < 0
    /\ Abs(r.daily_realized_pnl) * 100
          >= circuit_breaker_loss_threshold * BankrollCents

\* w.loss_pending notes a settled loss that took the daily loss to the cap
\* while the breaker was not latched, until the next check_trade_allowed.
close_position(w, ticker, exit_pnl) ==
    IF w.positions[ticker].quantity > 0
    THEN LET Closed(w1) ==
                 IF exit_pnl < 0 /\ ~DailyLossAtCap(w.rm) /\ DailyLossAtCap(w1.rm)
                 THEN [w1 EXCEPT !.loss_pending =
                          IF w.rm.circuit_breaker_active THEN "no" ELSE "yes"]
                 ELSE w1
         IN Closed(_recompute_metrics(
                      [w EXCEPT !.positions[ticker] = NoPos,
                                !.position_keys = SelectSeq(@, LAMBDA k : k # ticker),
                                !.rm.daily_realized_pnl = @ + exit_pnl]))
    ELSE w


(***************************************************************************)
(* KalshiClient._request_with_retry.  A call is at its request             *)
(* ("requesting"), in a back-off sleep ("sleeping"), or over ("returned",  *)
(* "raised"); answers are the responses to its requests so far and slept   *)
(* the back-off in seconds after each answer it retried.                   *)
(***************************************************************************)
max_retries == 3
Responses == {"2xx", "429", "5xx", "409", "4xx", "network"}
Methods == {"GET", "POST"}

\* No placement in flight
NoSignal ==
    [valid |-> FALSE, edge |-> 0, confidence_ok |-> FALSE, ticker |-> "-",
     side |-> "-", quantity |-> 0, price |-> 0]

NoFlight == [busy |-> FALSE, cancelled |-> FALSE, sig |-> NoSignal, outcome |-> "-"]

NoCall == [pc |-> "idle", method |-> "-", attempt |-> 0, answers |-> <<>>, slept |-> <<>>]

NewCall(method) == [NoCall EXCEPT !.pc = "requesting", !.method = method]

RECURSIVE Pow2(_)
Pow2(n) == IF n = 0 THEN 1 ELSE 2 * Pow2(n - 1)

\* Every back-off one second long.
backoff_one_second(attempt) == 1
\* delay = 2 ** attempt
backoff(attempt) == Pow2(attempt)

\* One turn of the loop: the request of this attempt is answered.
_request_with_retry(c, response) ==
    LET answered == [c EXCEPT !.answers = Append(@, response)]
        sleep(delay) == [answered EXCEPT !.pc = "sleeping", !.slept = Append(@, delay)]
        return == [answered EXCEPT !.pc = "returned"]
        raise == [answered EXCEPT !.pc = "raised"]
    IN IF response = "2xx" THEN return
       ELSE IF response = "network"
       THEN IF c.attempt < max_retries THEN sleep(backoff(c.attempt)) ELSE raise
       ELSE IF response = "429" /\ c.attempt < max_retries THEN sleep(backoff(c.attempt))
       ELSE IF response = "5xx" /\ c.attempt = 0 THEN sleep(2)
       ELSE IF response = "409" /\ c.method = "POST" THEN return
       ELSE raise

\* continue: the next attempt's request.
next_attempt(c) == [c EXCEPT !.pc = "requesting", !.attempt = @ + 1]

\* The requests a call has made.
Requests(c) == Len(c.answers) + (IF c.pc = "requesting" THEN 1 ELSE 0)

\* The whole call under the responses given, as far as they go.
RECURSIVE RunCall(_, _)
RunCall(c, responses) ==
    IF c.pc = "sleeping" THEN RunCall(next_attempt(c), responses)
    ELSE IF c.pc # "requesting" \/ responses = <<>> THEN c
    ELSE RunCall(_request_with_retry(c, Head(responses)), Tail(responses))

----------------------------------------------------------------------------
(* KalshiClient: the order mutations.  Each takes the dry_run argument its *)
(* caller passes and the exchange's answer (outcome); a request that goes  *)
(* on the wire is logged in w.sent with OrderManager.dry_run of that       *)
(* moment.  The exchange never fills more than an order's count.           *)

\* price: the yes_price or no_price of the body (Null: the body has none).
SendPriced(w, kind, price) ==
    [w EXCEPT !.sent = @ \cup {[kind |-> kind, dry_run |-> w.dry_run,
                                price |-> price]}]

Send(w, kind) == SendPriced(w, kind, Null)

\* A price in dollars is counted in mills (1/1000 $); Trade.price, the prices
\* of a signal and the exchange's prices are in whole cents.
Mills(cents) == cents * 10
Cents(mills) == mills \div 10

\* round(price * 100): to the nearest cent, a half to the even cent.
RoundCents(mills) ==
    LET q == mills \div 10
        r == mills % 10
    IN IF r < 5 THEN q
       ELSE IF r > 5 THEN q + 1
       ELSE IF q % 2 = 0 THEN q ELSE q + 1

\* The range test of place_order on the rounded price.
PriceInRange(price_cents) == price_cents >= 1 /\ price_cents <= 99

\* The exchange order ids a request names.
Use(w, order_ids) == [w EXCEPT !.used = @ \cup order_ids]

UsedOrders(ex) == {o \in DOMAIN ex : ex[o].status # "none"}
NextOrderId(ex) == Cardinality(UsedOrders(ex)) + 1

\* The responses to the POST of an order under each outcome of the model.
PlaceResponses(outcome) ==
    IF outcome = "accepted" THEN <<"2xx">>
    ELSE IF outcome \in {"conflict_order", "conflict_error"} THEN <<"409">>
    ELSE IF outcome = "network" THEN <<"network", "network", "network", "network">>
    ELSE <<"4xx">>

\* Returns the Trade the client builds: status, order_id (0: None), raised.
\* An exchange that has no order id left refuses the order.
client_place_order(w, side, quantity, price, dry_run_arg, outcome) ==
    LET price_cents == RoundCents(price)
        o == NextOrderId(w.exch)
        answer == IF outcome \in {"accepted", "conflict_order", "conflict_error"}
                     /\ o \notin DOMAIN w.exch
                  THEN "rejected" ELSE outcome
        done == RunCall(NewCall("POST"), PlaceResponses(answer))
        Answered(w1) ==
            IF done.pc = "returned"
            THEN [w |-> [w1 EXCEPT !.exch[o] =
                            [status |-> "resting", count |-> quantity,
                             fill_count |-> 0, price |-> price_cents, side |-> side],
                         !.placed = [outcome |-> answer, exchange_order |-> o,
                                     requests |-> Requests(done)]],
                  status |-> "submitted",
                  order_id |-> IF answer = "conflict_error" THEN 0 ELSE o,
                  raised |-> FALSE]
            ELSE [w |-> [w1 EXCEPT !.placed = [outcome |-> answer, exchange_order |-> 0,
                                               requests |-> Requests(done)]],
                  status |-> "failed", order_id |-> 0,
                  raised |-> (answer = "network")]
    IN IF dry_run_arg
       THEN [w |-> w, status |-> "pending", order_id |-> 0, raised |-> FALSE]
       ELSE IF ~PriceInRange(price_cents)
       THEN [w |-> w, status |-> "failed", order_id |-> 0, raised |-> TRUE]
       ELSE Answered(SendPriced(w, "place", price_cents))

\* DELETE /portfolio/orders/{order_id} goes on the wire.
SendCancel(w, order_id) ==
    [Use(Send(w, "cancel"), {order_id}) EXCEPT !.cancels = @ \cup {order_id}]

\* The cancel request without its dry-run guard.
client_cancel_order_unguarded(w, order_id, dry_run_arg, outcome) ==
    LET w1 == SendCancel(w, order_id)
    IN IF outcome = "ok" /\ w.exch[order_id].status = "resting"
       THEN [w |-> [w1 EXCEPT !.exch[order_id].status = "canceled"],
             raised |-> FALSE]
       ELSE [w |-> w1, raised |-> TRUE]

client_cancel_order(w, order_id, dry_run_arg, outcome) ==
    IF dry_run_arg
    THEN [w |-> w, raised |-> FALSE]
    ELSE LET w1 == SendCancel(w, order_id)
         IN IF outcome = "ok" /\ w.exch[order_id].status = "resting"
            THEN [w |-> [w1 EXCEPT !.exch[order_id].status = "canceled"],
                  raised |-> FALSE]
            ELSE [w |-> w1, raised |-> TRUE]

client_batch_cancel_orders(w, order_ids, dry_run_arg, outcome) ==
    IF Cardinality(order_ids) > 20
    THEN [w |-> w, raised |-> TRUE]
    ELSE IF dry_run_arg
    THEN [w |-> w, raised |-> FALSE]
    ELSE LET w1 == Use(Send(w, "batch_cancel"), order_ids)
         IN IF outcome = "ok"
            THEN [w |-> [w1 EXCEPT !.exch =
                            [o \in DOMAIN @ |->
                               IF o \in order_ids /\ @[o].status = "resting"
                               THEN [@[o] EXCEPT !.status = "canceled"]
                               ELSE @[o]]],
                  raised |-> FALSE]
            ELSE [w |-> w1, raised |-> TRUE]

\* price (cents on the order's side, Null: unchanged), count (Null: unchanged).
\* The exchange cancels the old order and opens a new one, count its new
\* max fillable.  Returns the new order id (0: the response names none).
client_amend_order(w, order_id, price, count, dry_run_arg, outcome) ==
    IF dry_run_arg
    THEN [w |-> w, new_order_id |-> 0, raised |-> FALSE]
    ELSE LET w1 == Use(SendPriced(w, "amend", price), {order_id})
             old == w.exch[order_id]
             o == NextOrderId(w.exch)
             accepted == /\ outcome = "ok"
                         /\ old.status = "resting"
                         /\ o \in DOMAIN w.exch
                         /\ (price = Null \/ (price >= 1 /\ price <= 99))
                         /\ (count = Null \/ count >= 1)
         IN IF accepted
            THEN [w |-> [w1 EXCEPT !.exch[order_id].status = "canceled",
                                   !.exch[o] =
                                      [status |-> "resting",
                                       count |-> IF count = Null
                                                 THEN old.count - old.fill_count
                                                 ELSE count,
                                       fill_count |-> 0,
                                       price |-> IF price = Null THEN old.price ELSE price,
                                       side |-> old.side]],
                  new_order_id |-> o, raised |-> FALSE]
            ELSE [w |-> w1, new_order_id |-> 0, raised |-> TRUE]

client_decrease_order(w, order_id, reduce_by, reduce_to, dry_run_arg, outcome) ==
    IF dry_run_arg
    THEN [w |-> w, raised |-> FALSE]
    ELSE IF reduce_by # Null /\ reduce_to # Null
    THEN [w |-> w, raised |-> TRUE]
    ELSE IF reduce_by = Null /\ reduce_to = Null
    THEN [w |-> w, raised |-> TRUE]
    ELSE LET w1 == Use(Send(w, "decrease"), {order_id})
             old == w.exch[order_id]
             remaining == old.count - old.fill_count
             target == IF reduce_by # Null THEN remaining - reduce_by ELSE reduce_to
         IN IF outcome = "ok" /\ old.status = "resting"
               /\ target >= 0 /\ target <= remaining
            THEN [w |-> [w1 EXCEPT !.exch[order_id].count = old.fill_count + target,
                                   !.exch[order_id].status =
                                       IF target = 0 THEN "canceled" ELSE "resting"],
                  raised |-> FALSE]
            ELSE [w |-> w1, raised |-> TRUE]

----------------------------------------------------------------------------
(* OrderManager *)

CompletedCap == 500

_sync_open_count_never(w) == w

_sync_open_count(w) == set_open_orders_count(w, Cardinality(w.active_orders))

_move_to_completed_uncapped(w, id) ==
    _sync_open_count(IF id \in w.active_orders
                     THEN [w EXCEPT !.active_orders = @ \ {id},
                                    !.completed_orders = Append(@, id)]
                     ELSE w)

_move_to_completed(w, id) ==
    LET c == Append(w.completed_orders, id)
        w1 == IF id \in w.active_orders
              THEN [w EXCEPT !.active_orders = @ \ {id},
                             !.completed_orders =
                                 IF Len(c) > CompletedCap
                                 THEN SubSeq(c, Len(c) - CompletedCap + 1, Len(c))
                                 ELSE c]
              ELSE w
    IN _sync_open_count(w1)

\* The call of the risk gate: w.check records the state at the call and
\* the answer, for the step.
CallCheck(w, ticker, quantity, price) ==
    LET Noted(chk) ==
            [chk EXCEPT !.w.loss_pending = "no", !.w.check =
                [called |-> TRUE, ticker |-> ticker,
                 loss_pending_at_call |-> w.loss_pending,
                 quantity |-> quantity, price |-> price,
                 active_at_call |-> w.rm.circuit_breaker_active,
                 reason_at_call |-> w.rm.circuit_breaker_reason,
                 day_rolled |-> w.today > w.rm.daily_date,
                 week_rolled |-> _current_week_monday(w.today) > w.rm.weekly_start_date,
                 position_open |-> w.positions[ticker].quantity > 0,
                 ok |-> chk.ok, gate |-> chk.gate, reason |-> chk.reason]]
    IN Noted(check_trade_allowed(w, ticker, quantity, price))

\* Every status counts as open.
IsOpen_whatever(status) == TRUE
\* trade.status in (SUBMITTED, PENDING)
IsOpen(status) == status \in {"submitted", "pending"}

\* sig: valid, edge, confidence_ok, ticker, side, quantity, price.
execute_signal(w, sig, outcome) ==
    IF ~sig.valid THEN w
    ELSE IF ~validate_signal_edge(sig.edge, sig.confidence_ok) THEN w
    ELSE
    LET id == Len(w.trades) + 1
        trade == [ticker |-> sig.ticker, side |-> sig.side,
                  quantity |-> sig.quantity, price |-> sig.price,
                  status |-> "pending", filled_quantity |-> 0,
                  average_fill_price |-> 0, cost |-> 0, pnl |-> Null,
                  order_id |-> 0, dry_run |-> w.dry_run, age |-> "fresh"]
        Recorded(w4, executed) ==
            IF executed.status = "submitted"
            THEN [w4 EXCEPT !.submitted = @ \cup {id}]
            ELSE w4
        Tracked(w2, executed) ==
            Recorded(record_trade(
                         IF IsOpen(executed.status)
                         THEN _sync_open_count([w2 EXCEPT !.active_orders = @ \cup {id}])
                         ELSE w2, id),
                     executed)
        Placed(executed) ==
            IF executed.raised
            THEN [executed.w EXCEPT !.trades[id].status = "failed"]
            ELSE Tracked([executed.w EXCEPT
                             !.trades[id].order_id =
                                 IF executed.order_id # 0 THEN executed.order_id ELSE @,
                             !.trades[id].status = executed.status],
                         executed)
        Checked(chk) ==
            IF ~chk.ok THEN chk.w
            ELSE Placed(client_place_order(
                            [chk.w EXCEPT !.trades = Append(@, trade)],
                            trade.side, trade.quantity, Mills(trade.price),
                            chk.w.dry_run, outcome))
    IN Checked(CallCheck(w, sig.ticker, sig.quantity, sig.price))

\* execute_signal whose task is cancelled while it awaits place_order: the
\* request has gone out and the exchange answers it, CancelledError is raised
\* at the await and is no Exception, so it leaves execute_signal with the
\* Trade object, which nothing else references.
execute_signal_cancelled(w, sig, outcome) ==
    IF ~sig.valid THEN w
    ELSE IF ~validate_signal_edge(sig.edge, sig.confidence_ok) THEN w
    ELSE
    LET Dropped_trade(executed, before) ==
            [executed.w EXCEPT !.trades = before.trades]
        Checked(chk) ==
            IF ~chk.ok THEN chk.w
            ELSE Dropped_trade(
                     client_place_order(
                         [chk.w EXCEPT !.trades = Append(@,
                             [ticker |-> sig.ticker, side |-> sig.side,
                              quantity |-> sig.quantity, price |-> sig.price,
                              status |-> "pending", filled_quantity |-> 0,
                              average_fill_price |-> 0, cost |-> 0, pnl |-> Null,
                              order_id |-> 0, dry_run |-> w.dry_run,
                              age |-> "fresh"])],
                         sig.side, sig.quantity, Mills(sig.price),
                         chk.w.dry_run, outcome),
                     chk.w)
    IN Checked(CallCheck(w, sig.ticker, sig.quantity, sig.price))

\* cancel_order without its test for a terminal status.
cancel_order_no_terminal_test(w, id, outcome) ==
    IF id \notin w.active_orders THEN [w EXCEPT !.ret = FALSE]
    ELSE IF w.trades[id].order_id = 0 THEN [w EXCEPT !.ret = FALSE]
    ELSE LET Answered(r) ==
                 IF r.raised THEN [r.w EXCEPT !.ret = FALSE]
                 ELSE [_move_to_completed(
                          [r.w EXCEPT !.trades[id].status = "cancelled"], id)
                       EXCEPT !.ret = TRUE]
         IN Answered(client_cancel_order(w, w.trades[id].order_id, w.dry_run, outcome))

\* w.ret is the value the operation returns.
cancel_order(w, id, outcome) ==
    IF id \notin w.active_orders THEN [w EXCEPT !.ret = FALSE]
    ELSE IF w.trades[id].order_id = 0 THEN [w EXCEPT !.ret = FALSE]
    ELSE IF w.trades[id].status \in TerminalStates THEN [w EXCEPT !.ret = FALSE]
    ELSE LET Answered(r) ==
                 IF r.raised THEN [r.w EXCEPT !.ret = FALSE]
                 ELSE [_move_to_completed(
                          [r.w EXCEPT !.trades[id].status = "cancelled"], id)
                       EXCEPT !.ret = TRUE]
         IN Answered(client_cancel_order(w, w.trades[id].order_id, w.dry_run, outcome))

RECURSIVE MarkAllCancelled(_, _, _)
MarkAllCancelled(w, trade_ids, i) ==
    IF i > Len(w.trades) THEN w
    ELSE IF i \in trade_ids /\ i \in w.active_orders
    THEN MarkAllCancelled(
             _move_to_completed([w EXCEPT !.trades[i].status = "cancelled"], i),
             trade_ids, i + 1)
    ELSE MarkAllCancelled(w, trade_ids, i + 1)

\* At most MaxTrades orders are active, so the ids make one chunk of 20.
cancel_all_orders(w, outcome) ==
    LET trade_ids == w.active_orders
        resting_ids == {w.trades[i].order_id :
                           i \in {j \in w.active_orders :
                                     w.trades[j].order_id # 0 /\ ~w.dry_run}}
        Marked(r) ==
            [MarkAllCancelled(r.w, trade_ids, 1) EXCEPT !.ret =
                IF w.dry_run THEN Cardinality(trade_ids)
                ELSE IF r.raised THEN 0 ELSE Cardinality(resting_ids)]
    IN Marked(IF resting_ids = {} THEN [w |-> w, raised |-> FALSE]
              ELSE client_batch_cancel_orders(w, resting_ids, w.dry_run, outcome))

decrease_order(w, id, reduce_by, reduce_to, outcome) ==
    IF id \notin w.active_orders \/ w.trades[id].order_id = 0
    THEN [w EXCEPT !.ret = FALSE]
    ELSE LET Answered(r) == [r.w EXCEPT !.ret = ~r.raised]
         IN Answered(client_decrease_order(w, w.trades[id].order_id,
                                           reduce_by, reduce_to, w.dry_run, outcome))

\* amend_order that keeps the trade's old exchange order id.
amend_order_keeps_order_id(w, id, new_price, new_quantity, outcome) ==
    IF id \notin w.active_orders \/ w.trades[id].order_id = 0
    THEN [w EXCEPT !.ret = 0]
    ELSE LET Answered(r) ==
            IF r.raised THEN [r.w EXCEPT !.ret = 0]
            ELSE IF r.new_order_id # 0
            THEN [r.w EXCEPT !.trades[id].price =
                                 IF new_price # Null THEN Cents(new_price) ELSE @,
                             !.trades[id].quantity =
                                 IF new_quantity # Null THEN new_quantity ELSE @,
                             !.retired = @ \cup {w.trades[id].order_id},
                             !.ret = r.new_order_id]
            ELSE [r.w EXCEPT !.ret = 0]
         IN Answered(client_amend_order(w, w.trades[id].order_id,
                                        IF new_price # Null
                                        THEN RoundCents(new_price) ELSE Null,
                                        new_quantity, w.dry_run, outcome))

\* new_price in mills; the requests of the model amend to whole cents.
amend_order(w, id, new_price, new_quantity, outcome) ==
    IF id \notin w.active_orders \/ w.trades[id].order_id = 0
    THEN [w EXCEPT !.ret = 0]
    ELSE LET Answered(r) ==
            IF r.raised THEN [r.w EXCEPT !.ret = 0]
            ELSE IF r.new_order_id # 0
            THEN [r.w EXCEPT !.trades[id].order_id = r.new_order_id,
                             !.trades[id].price =
                                 IF new_price # Null THEN Cents(new_price) ELSE @,
                             !.trades[id].quantity =
                                 IF new_quantity # Null THEN new_quantity ELSE @,
                             !.retired = @ \cup {w.trades[id].order_id},
                             !.ret = r.new_order_id]
            ELSE [r.w EXCEPT !.ret = 0]
         IN Answered(client_amend_order(w, w.trades[id].order_id,
                                        IF new_price # Null
                                        THEN RoundCents(new_price) ELSE Null,
                                        new_quantity, w.dry_run, outcome))

----------------------------------------------------------------------------
(* The monitor loop.  The loops run over the snapshot list(items()) in     *)
(* insertion order, which is the order of the internal ids.                *)

\* order: the exchange's order snapshot (status, fill_count, fill cost).
_apply_order_status(w, id, order) ==
    LET kalshi_status == order.status
        fill_count == order.fill_count
        total_fill_cost_cents == order.fill_count * order.price
        w1 == IF kalshi_status = "resting"
              THEN [w EXCEPT !.trades[id].status = "submitted",
                             !.submitted = @ \cup {id}]
              ELSE IF kalshi_status = "executed"
              THEN [w EXCEPT !.trades[id].status = "filled"]
              ELSE IF kalshi_status = "canceled"
              THEN [w EXCEPT !.trades[id].status = "cancelled"]
              ELSE w
        WithFillCount(w2) ==
            IF fill_count # 0
            THEN [w2 EXCEPT !.trades[id].filled_quantity = fill_count]
            ELSE w2
        WithFillPrice(w3) ==
            IF fill_count # 0 /\ total_fill_cost_cents # 0
            THEN [w3 EXCEPT !.trades[id].average_fill_price =
                               total_fill_cost_cents \div fill_count]
            ELSE w3
        WithCost(w4) ==
            IF w4.trades[id].filled_quantity # 0
               /\ w4.trades[id].average_fill_price # 0
            THEN [w4 EXCEPT !.trades[id].cost =
                               w4.trades[id].filled_quantity
                                  * w4.trades[id].average_fill_price]
            ELSE w4
    IN WithCost(WithFillPrice(WithFillCount(w1)))

\* A paper fill with no queue delay.
PaperFillDue_no_delay(trade) == trade.status = "pending" /\ trade.dry_run

\* The trade is a PENDING paper trade submitted at least 2 s ago.
PaperFillDue(trade) ==
    trade.status = "pending" /\ trade.dry_run /\ trade.age # "fresh"

RECURSIVE _simulate_paper_fills_from(_, _, _)
_simulate_paper_fills_from(w, snapshot, i) ==
    IF i > Len(w.trades) THEN w
    ELSE IF i \notin snapshot \/ ~PaperFillDue(w.trades[i])
    THEN _simulate_paper_fills_from(w, snapshot, i + 1)
    ELSE LET trade == w.trades[i]
             fill_price == IF trade.price > 0 THEN trade.price ELSE 50
             w1 == [w EXCEPT !.trades[i].status = "filled",
                             !.trades[i].filled_quantity = trade.quantity,
                             !.trades[i].average_fill_price = fill_price,
                             !.trades[i].cost = trade.quantity * fill_price,
                             !.trades[i].pnl = Null]
         IN _simulate_paper_fills_from(
                _move_to_completed(record_trade(w1, i), i), snapshot, i + 1)

_simulate_paper_fills(w) == _simulate_paper_fills_from(w, w.active_orders, 1)

RECURSIVE _poll_active_orders_from(_, _, _, _)
_poll_active_orders_from(w, snapshot, poll_fail, i) ==
    IF i > Len(w.trades) THEN w
    ELSE IF i \notin snapshot \/ w.trades[i].order_id = 0
    THEN _poll_active_orders_from(w, snapshot, poll_fail, i + 1)
    ELSE IF i \in poll_fail
    THEN _poll_active_orders_from(Use(w, {w.trades[i].order_id}),
                                  snapshot, poll_fail, i + 1)
    ELSE LET Applied(w1) ==
                 IF w1.trades[i].status \in TerminalStates
                 THEN _move_to_completed(record_trade(w1, i), i)
                 ELSE w1
             Polled(w0) ==
                 Applied(_apply_order_status(w0, i, w0.exch[w0.trades[i].order_id]))
         IN _poll_active_orders_from(Polled(Use(w, {w.trades[i].order_id})),
                                     snapshot, poll_fail, i + 1)

\* poll_fail: the trades whose status request fails.
_poll_active_orders(w, poll_fail) ==
    IF w.dry_run THEN _simulate_paper_fills(w)
    ELSE _poll_active_orders_from(w, w.active_orders, poll_fail, 1)

\* (1 - entry) * qty for the winning side, -entry * qty for the losing one.
\* Settlement P&L that takes every holder for a YES holder.
SettlementPnl_as_yes_holder(pos, resolved_yes) ==
    IF resolved_yes THEN 100 * pos.quantity - pos.cost ELSE 0 - pos.cost

SettlementPnl(pos, resolved_yes) ==
    LET won == IF pos.side = "yes" THEN resolved_yes ELSE ~resolved_yes
    IN IF won THEN 100 * pos.quantity - pos.cost ELSE 0 - pos.cost

RECURSIVE _settle_paper_positions_from(_, _, _, _)
_settle_paper_positions_from(w, keys, market_fail, i) ==
    IF i > Len(keys) THEN w
    ELSE LET ticker == keys[i]
             m == w.market[ticker]
             pos == w.positions[ticker]
             resolved_yes == m.yes_price >= 99
             pnl == SettlementPnl(pos, resolved_yes)
         IN IF ticker \in market_fail
               \/ m.status \notin {"closed", "settled"}
               \/ m.yes_price = 0
               \/ (m.yes_price < 99 /\ m.yes_price > 1)
            THEN _settle_paper_positions_from(w, keys, market_fail, i + 1)
            ELSE _settle_paper_positions_from(
                     [close_position(w, ticker, pnl) EXCEPT
                         !.settled = @ \cup {[ticker |-> ticker, pos |-> pos,
                                              market |-> m, pnl |-> pnl]}],
                     keys, market_fail, i + 1)

_settle_paper_positions(w, market_fail) ==
    _settle_paper_positions_from(w, w.position_keys, market_fail, 1)

FirstActiveWithOrder(w, order_id) ==
    LET S == {i \in w.active_orders : w.trades[i].order_id = order_id}
    IN IF S = {} THEN 0 ELSE CHOOSE i \in S : \A j \in S : i <= j

RECURSIVE ReconcileFillsFrom(_, _, _)
ReconcileFillsFrom(w, fs, k) ==
    IF k > Len(fs) THEN w
    ELSE LET fill == fs[k]
             id == FirstActiveWithOrder(w, fill.order_id)
         IN IF fill.order_id = 0 \/ id = 0 \/ w.trades[id].status = "filled"
            THEN ReconcileFillsFrom(w, fs, k + 1)
            ELSE LET price_cents == IF w.trades[id].side = "yes"
                                    THEN fill.yes_price ELSE fill.no_price
                 IN ReconcileFillsFrom(
                        [w EXCEPT !.trades[id].status = "filled",
                                  !.trades[id].average_fill_price = price_cents,
                                  !.trades[id].filled_quantity = fill.count,
                                  !.reconciled = @ \cup {id}],
                        fs, k + 1)

\* fetch_fail: the request of the round fails (the fills feed, or the
\* markets named, in paper mode).
_reconcile_fills(w, fetch_fail, market_fail) ==
    IF w.dry_run THEN _settle_paper_positions(w, market_fail)
    ELSE IF fetch_fail THEN w
    ELSE [ReconcileFillsFrom(w, w.fills, 1) EXCEPT !.fills = <<>>]

RECURSIVE _cancel_stale_orders_from(_, _, _, _)
_cancel_stale_orders_from(w, snapshot, cancel_fail, i) ==
    IF i > Len(w.trades) THEN w
    ELSE IF i \in snapshot /\ w.trades[i].status = "submitted"
            /\ w.trades[i].age = "stale"
    THEN _cancel_stale_orders_from(
             cancel_order(w, i, IF i \in cancel_fail THEN "fail" ELSE "ok"),
             snapshot, cancel_fail, i + 1)
    ELSE _cancel_stale_orders_from(w, snapshot, cancel_fail, i + 1)

_cancel_stale_orders(w, cancel_fail) ==
    _cancel_stale_orders_from(w, w.active_orders, cancel_fail, 1)

\* One pass of the loop body; returns the world and the new fills_tick.
_monitor_loop(w, tick, poll_fail, fetch_fail, market_fail, cancel_fail) ==
    LET t1 == tick + 2
        due == t1 >= fills_interval
        Reconciled(w1) ==
            IF due THEN _reconcile_fills(w1, fetch_fail, market_fail) ELSE w1
    IN [w |-> _sync_open_count(
                  _cancel_stale_orders(
                      Reconciled(_poll_active_orders(w, poll_fail)), cancel_fail)),
        fills_tick |-> IF due THEN 0 ELSE t1]

----------------------------------------------------------------------------
(* The state machine *)

(***************************************************************************)
(* KalshiClient's rate limiter.  Time is counted in tenths of a second.    *)
(* A caller is a coroutine inside _request: the trading loop, the order    *)
(* monitor, an operator's handler.                                         *)
(***************************************************************************)
Callers == {"trading_loop", "monitor", "operator"}
rate_limit_delay == 2
StartClock == 2
NotWaiting == -1

\* KalshiClient.__init__: last_request_time = 0.0, nobody inside _request.
NewClient == [now |-> StartClock, last_request_time |-> 0,
              waiting |-> [c \in Callers |-> NotWaiting], requests |-> <<>>]

\* _rate_limit after its wait, and _request up to the await that sends:
\* last_request_time = loop.time(), then the request goes out.
_request(k, caller) ==
    [k EXCEPT !.last_request_time = k.now,
              !.waiting[caller] = NotWaiting,
              !.requests = Append(@, k.now)]

\* _rate_limit up to its await: the caller sleeps for what is left of the
\* delay since last_request_time, or goes on at once.
_rate_limit(k, caller) ==
    LET elapsed == k.now - k.last_request_time
    IN IF elapsed < rate_limit_delay
       THEN [k EXCEPT !.waiting[caller] = k.now + (rate_limit_delay - elapsed)]
       ELSE _request(k, caller)


(***************************************************************************)
(* HighConfidenceThresholdStrategy.  Probabilities and edges are counted   *)
(* in mills (1/1000), market prices in cents, times in seconds, and the    *)
(* arithmetic of the sizing is exact where the code's is floating point.   *)
(***************************************************************************)
min_time_remaining == 90
max_time_remaining == 840
min_samples == 5
min_probability == 900
strategy_min_edge == 50
kelly_fraction_pct == 25

NoAnalysis == [op |-> "-"]

\* int(bankroll * adjusted_fraction / market_price), at least 1:
\*   edge/1000 / (price/100) * kelly_fraction_pct/100 [* 1/2] * bankroll / (price/100)
\*   = bankroll * edge * kelly_fraction_pct / (10 [* 2] * price * price)
\* The asymmetry haircut applies when price / (100 - price) > 5.
_calculate_position_size(edge, bankroll, market_price) ==
    IF edge <= 0 \/ market_price <= 0 \/ market_price >= 100
    THEN 0
    ELSE LET haircut  == IF market_price > 5 * (100 - market_price) THEN 2 ELSE 1
             quantity == (bankroll * edge * kelly_fraction_pct)
                            \div (10 * haircut * market_price * market_price)
         IN IF quantity < 1 THEN 1 ELSE quantity

\* analyze: the gates in the code's order, then the signal's quantity.  in is
\* the market as read and what the volatility and probability stages made
\* of the price history.
analyze(in) ==
    LET none(reason) == [signal |-> FALSE, reason |-> reason, quantity |-> 0]
        edge == in.true_prob - in.yes_price * 10
    IN IF ~in.is_tradeable THEN none("not_tradeable")
       ELSE IF in.time_remaining < min_time_remaining THEN none("too_close")
       ELSE IF in.time_remaining > max_time_remaining THEN none("too_far")
       ELSE IF in.yes_price <= 0 \/ in.yes_price >= 100 THEN none("market_prob")
       ELSE IF in.samples < min_samples THEN none("samples")
       ELSE IF ~in.volatility_positive THEN none("volatility")
       ELSE IF in.volatility_spike THEN none("spike")
       ELSE IF in.true_prob < min_probability THEN none("probability")
       ELSE IF edge < strategy_min_edge THEN none("edge")
       ELSE [signal |-> TRUE, reason |-> "-",
             quantity |-> _calculate_position_size(edge, Bankroll, in.yes_price)]


\* A task is "none" (never created), "running", "cancelled" (cancel() was
\* called, the CancelledError has not ended it yet) or "exited".  awaited is
\* the task the call of stop awaits, which a start coming in between does
\* not replace.
NoTasks ==
    [main |-> "none", monitor |-> "none", monitoring |-> FALSE,
     stop |-> "idle", awaited |-> "none"]

\* Task.cancel(): a task that is not running is left as it is.
Cancelled(task) == IF task = "running" THEN "cancelled" ELSE task

\* start_monitoring and the creation of the trading task.
start(t) ==
    [t EXCEPT !.monitoring = TRUE,
              !.monitor = IF t.monitoring THEN @ ELSE "running",
              !.main = "running"]

\* stop run to its end with no other handler in between.
stop(t) ==
    [t EXCEPT !.main = "exited", !.monitor = "exited", !.monitoring = FALSE,
              !.stop = "idle", !.awaited = "exited"]

World ==
    [rm |-> rm, positions |-> positions, position_keys |-> position_keys,
     trades |-> trades, active_orders |-> active_orders,
     completed_orders |-> completed_orders, dry_run |-> dry_run,
     exch |-> exch, fills |-> fills, market |-> market, today |-> today,
     reconciled |-> hist.reconciled,
     submitted |-> hist.submitted, retired |-> hist.retired,
     loss_pending |-> hist.loss_pending,
     applied |-> hist.applied, reapplied |-> hist.reapplied,
     sent |-> {}, check |-> NoCheck, placed |-> NoPlace, ret |-> Null,
     target |-> 0, used |-> {}, registered |-> {},
            settled |-> {}, mode |-> NoMode, cancels |-> {}]

\* The program's variables after an operation, and what the step did.
Commit(w, op) ==
    /\ rm' = w.rm
    /\ positions' = w.positions
    /\ position_keys' = w.position_keys
    /\ trades' = w.trades
    /\ active_orders' = w.active_orders
    /\ completed_orders' = w.completed_orders
    /\ exch' = w.exch
    /\ fills' = w.fills
    /\ obs' = [op |-> op, check |-> w.check, sent |-> w.sent,
               placed |-> w.placed,
               ret |-> IF op = "-" THEN Null ELSE w.ret, target |-> w.target,
               used |-> w.used, registered |-> w.registered,
               settled |-> w.settled, mode |-> w.mode, cancels |-> w.cancels]

KeepHist(w) ==
    hist' = [hist EXCEPT !.reconciled = w.reconciled,
                         !.submitted = w.submitted,
                         !.retired = w.retired,
                         !.loss_pending = w.loss_pending,
                         !.applied = w.applied,
                         !.reapplied = w.reapplied]

\* What the exchange does with POST /portfolio/orders: accepts; rejects (4xx);
\* is unreachable on every attempt; or accepts while the response is lost, so
\* that the retry with the same client_order_id is answered 409, with a body
\* that carries the order or with an error body.
Conflicts == {"conflict_order", "conflict_error"}
Outcomes ==
    IF dry_run THEN {"accepted"}
    ELSE {"accepted", "rejected", "network"} \cup Conflicts
Answers == IF dry_run THEN {"ok"} ELSE {"ok", "fail"}
Fails(S) == IF dry_run THEN {{}} ELSE SUBSET S

Init ==
    /\ rm = [daily_date |-> FirstDay, daily_realized_pnl |-> 0,
             weekly_start_date |-> _current_week_monday(FirstDay),
             weekly_start_equity |-> BankrollCents,
             weekly_peak_equity |-> BankrollCents,
             session_peak_equity |-> BankrollCents,
             circuit_breaker_active |-> FALSE, circuit_breaker_reason |-> "",
             open_orders_count |-> 0]
    /\ positions = [t \in Tickers |-> NoPos]
    /\ position_keys = <<>>
    /\ trades = <<>>
    /\ active_orders = {}
    /\ completed_orders = <<>>
    /\ dry_run = TRUE
    /\ fills_tick = 0
    /\ running = FALSE
    /\ tasks = NoTasks
    /\ flight = NoFlight
    /\ call = NoCall
    /\ strat = NoAnalysis
    /\ client = NewClient
    /\ enabled = TRUE
    /\ exch = [o \in 1..MaxOrders |-> NoOrder]
    /\ fills = <<>>
    /\ market = [t \in Tickers |-> [status |-> "open", yes_price |-> 50]]
    /\ today = FirstDay
    /\ obs = [op |-> "-", check |-> NoCheck, sent |-> {}, placed |-> NoPlace,
            ret |-> Null, target |-> 0, used |-> {}, registered |-> {},
            settled |-> {}, mode |-> NoMode, cancels |-> {}]
    /\ hist = [reconciled |-> {}, submitted |-> {}, retired |-> {},
            loss_pending |-> "no", halted |-> FALSE,
            applied |-> {}, reapplied |-> {}]

\* TradingBot.start; the counter of a new monitor task starts at 0.
StartBot ==
    /\ ~running
    /\ running' = TRUE
    /\ tasks' = start(tasks)
    /\ fills_tick' = IF tasks.monitoring THEN fills_tick ELSE 0
    /\ Commit(World, "-")
    /\ UNCHANGED <<flight, call, strat, client, dry_run, enabled, market, today, hist>>

\* TradingBot.stop, from its call to its return.
StopBot ==
    /\ running
    /\ tasks.stop = "idle"
    /\ running' = FALSE
    /\ tasks' = stop(tasks)
    /\ Commit(World, "-")
    /\ UNCHANGED <<flight, call, strat, client, dry_run, fills_tick, enabled, market, today, hist>>

\* TradingBot.stop up to its first await: the trading task is cancelled.
StopCall ==
    /\ running
    /\ tasks.stop = "idle"
    /\ running' = FALSE
    /\ tasks' = [tasks EXCEPT !.main = Cancelled(@),
                              !.awaited = Cancelled(tasks.main),
                              !.stop = "await_main"]
    /\ flight' = [flight EXCEPT !.cancelled = flight.busy]
    /\ Commit(World, "-")
    /\ UNCHANGED <<call, strat, client, dry_run, fills_tick, enabled, market, today, hist>>

\* The cancelled task that stop awaits ends.
AwaitedTaskExits ==
    /\ tasks.awaited = "cancelled"
    /\ tasks' = [tasks EXCEPT
                    !.awaited = "exited",
                    !.main = IF tasks.stop = "await_main" /\ @ = "cancelled"
                             THEN "exited" ELSE @,
                    !.monitor = IF tasks.stop = "await_monitor" /\ @ = "cancelled"
                                THEN "exited" ELSE @]
    /\ IF flight.cancelled /\ tasks.stop = "await_main"
       THEN /\ Commit(execute_signal_cancelled(World, flight.sig, flight.outcome), "-")
            /\ flight' = NoFlight
       ELSE /\ Commit(World, "-")
            /\ flight' = flight
    /\ UNCHANGED <<call, strat, client, dry_run, fills_tick, running, enabled, market, today, hist>>

\* await self._main_task returns at once.
MainTaskDone_no_await(t) == TRUE

\* await self._main_task returns: the task has ended.
MainTaskDone(t) == t.awaited # "cancelled"

\* TradingBot.stop resumes: stop_monitoring up to its await.
StopMonitoring ==
    /\ tasks.stop = "await_main"
    /\ MainTaskDone(tasks)
    /\ tasks' = [tasks EXCEPT !.monitoring = FALSE,
                              !.monitor = Cancelled(@),
                              !.awaited = Cancelled(tasks.monitor),
                              !.stop = "await_monitor"]
    /\ Commit(World, "-")
    /\ UNCHANGED <<flight, call, strat, client, dry_run, fills_tick, running, enabled, market, today, hist>>

\* stop_monitoring and TradingBot.stop return.
StopReturns ==
    /\ tasks.stop = "await_monitor"
    /\ tasks.awaited # "cancelled"
    /\ tasks' = [tasks EXCEPT !.stop = "idle"]
    /\ Commit(World, "-")
    /\ UNCHANGED <<flight, call, strat, client, dry_run, fills_tick, running, enabled, market, today, hist>>

\* One pass of _trading_loop in which the strategy returns a signal.
TradingTick ==
    /\ running /\ tasks.main = "running" /\ enabled
    /\ Len(trades) < (IF dry_run /\ \A i \in DOMAIN trades : trades[i].dry_run
                       THEN MaxTrades ELSE MaxLiveTrades)
    /\ \E ticker \in Tickers, choice \in SignalChoices,
          quality \in SignalQualities, outcome \in Outcomes :
          /\ market[ticker].status = "open"
          /\ LET Done(w) == Commit(w, "-") /\ KeepHist(w)
             IN Done(execute_signal(World,
                        [valid |-> quality[1], edge |-> quality[2],
                         confidence_ok |-> quality[3], ticker |-> ticker,
                         side |-> choice[1], quantity |-> choice[2],
                         price |-> choice[3]], outcome))
    /\ UNCHANGED <<flight, call, strat, client, tasks, dry_run, fills_tick, running, enabled, market, today>>

\* One pass of _monitor_loop.
MonitorTick ==
    /\ tasks.monitoring /\ tasks.monitor = "running"
    /\ \E poll_fail \in Fails({i \in active_orders : trades[i].order_id # 0}),
          fetch_fail \in {a = "fail" : a \in Answers},
          market_fail \in SUBSET {t \in Tickers : dry_run /\ positions[t].quantity > 0},
          cancel_fail \in Fails({i \in active_orders :
                                     /\ trades[i].age = "stale"
                                     /\ trades[i].order_id # 0}) :
          LET Done(r) == /\ Commit(r.w, "-")
                         /\ KeepHist(r.w)
                         /\ fills_tick' = r.fills_tick
          IN Done(_monitor_loop(World, fills_tick, poll_fail, fetch_fail,
                                market_fail, cancel_fail))
    /\ UNCHANGED <<flight, call, strat, client, tasks, dry_run, running, enabled, market, today>>

\* POST /trades/{id}/cancel
CancelTrade ==
    /\ \E id \in 1..Len(trades), outcome \in Answers :
          Commit([cancel_order(World, id, outcome) EXCEPT !.target = id],
                 "cancel_order")
    /\ UNCHANGED <<flight, call, strat, client, tasks, dry_run, fills_tick, running, enabled, market, today, hist>>

\* POST /emergency/cancel-all
CancelAll ==
    /\ \E outcome \in Answers :
          Commit(cancel_all_orders(World, outcome), "-")
    /\ UNCHANGED <<flight, call, strat, client, tasks, dry_run, fills_tick, running, enabled, market, today, hist>>

\* POST /trades/{id}/decrease: the route refuses both and neither.
DecreaseTrade ==
    /\ \E id \in 1..Len(trades), reduce_by \in {Null} \cup DecreaseBy,
          reduce_to \in {Null} \cup DecreaseTo, outcome \in Answers :
          IF (reduce_by = Null) = (reduce_to = Null)
          THEN Commit(World, "-")
          ELSE Commit(decrease_order(World, id, reduce_by, reduce_to, outcome),
                      "-")
    /\ UNCHANGED <<flight, call, strat, client, tasks, dry_run, fills_tick, running, enabled, market, today, hist>>

\* POST /trades/{id}/amend: the route refuses a request that names neither.
AmendTrade ==
    /\ \E id \in 1..Len(trades), new_price \in {Null} \cup AmendPrices,
          new_quantity \in {Null} \cup AmendQuantities, outcome \in Answers :
          IF new_price = Null /\ new_quantity = Null
          THEN Commit(World, "-") /\ KeepHist(World)
          ELSE LET Done(w) == Commit(w, "-") /\ KeepHist(w)
               IN Done(amend_order(World, id, new_price, new_quantity, outcome))
    /\ UNCHANGED <<flight, call, strat, client, tasks, dry_run, fills_tick, running, enabled, market, today>>

\* POST /emergency/halt
EmergencyHalt ==
    /\ \E outcome \in Answers :
          Commit(trigger_circuit_breaker(cancel_all_orders(World, outcome),
                                         "OPERATOR EMERGENCY HALT"),
                 "-")
    /\ running' = FALSE
    /\ tasks' = IF running THEN stop(tasks) ELSE tasks
    /\ enabled' = FALSE
    /\ hist' = [hist EXCEPT !.halted = TRUE]
    /\ UNCHANGED <<flight, call, strat, client, dry_run, fills_tick, market, today>>

\* POST /circuit-breaker/reset
ResetCircuitBreaker ==
    /\ Commit(reset_circuit_breaker(World), "reset_circuit_breaker")
    /\ hist' = [hist EXCEPT !.halted = FALSE,
                            !.loss_pending = IF @ = "yes" THEN "reset" ELSE @]
    /\ UNCHANGED <<flight, call, strat, client, tasks, dry_run, fills_tick, running, enabled, market, today>>

\* POST /mode with mode = live is refused: the acknowledgement alone suffices.
LiveRefused_ack_only(risk_acknowledged, confirmed_bankroll) ==
    ~risk_acknowledged

\* POST /mode with mode = live is refused (confirmed_bankroll 0: none given).
LiveRefused(risk_acknowledged, confirmed_bankroll) ==
    ~risk_acknowledged \/ confirmed_bankroll <= 0

\* w.dry_run stands for trading_bot.dry_run and order_manager.dry_run, which
\* are equal at construction and assigned together; w.mode is the request
\* and the status of the response.
set_trading_mode(w, req) ==
    LET mode == req[1]
        risk_acknowledged == req[2]
        confirmed_bankroll == req[3]
        Answer(w1, status) ==
            [w1 EXCEPT !.mode = [asked |-> TRUE, mode |-> mode,
                                 risk_acknowledged |-> risk_acknowledged,
                                 confirmed_bankroll |-> confirmed_bankroll,
                                 status |-> status]]
    IN IF mode \notin {"dry_run", "paper", "live"} THEN Answer(w, 400)
       ELSE IF mode = "live"
       THEN IF LiveRefused(risk_acknowledged, confirmed_bankroll)
            THEN Answer(w, 400)
            ELSE Answer([w EXCEPT !.dry_run = FALSE], 200)
       ELSE Answer([w EXCEPT !.dry_run = TRUE], 200)

\* POST /mode, with a request out of requests
SetModeTo(requests) ==
    /\ \E req \in requests :
          LET Done(w) == Commit(w, "-") /\ dry_run' = w.dry_run
          IN Done(set_trading_mode(World, req))
    /\ UNCHANGED <<flight, call, strat, client, tasks, fills_tick, running, enabled, market, today, hist>>

\* POST /mode
SetMode == SetModeTo(ModeRequests)

\* POST /mode with a request that is granted
SwitchMode == SetModeTo(ModeSwitches)

\* POST /strategies/{name}/enable and /disable
EnableStrategy ==
    /\ \E e \in BOOLEAN : enabled' = e
    /\ Commit(World, "-")
    /\ UNCHANGED <<flight, call, strat, client, tasks, dry_run, fills_tick, running, market, today, hist>>

\* GET /status: get_metrics recomputes the metrics.
GetStatus ==
    /\ Commit(_recompute_metrics(World), "-")
    /\ UNCHANGED <<flight, call, strat, client, tasks, dry_run, fills_tick, running, enabled, market, today, hist>>

(* The environment *)

\* The exchange fills a resting order, once in part at most.
ExchangeFill ==
    /\ \E o \in DOMAIN exch :
          /\ exch[o].status = "resting"
          /\ \E n \in {exch[o].count - exch[o].fill_count}
                     \cup (IF exch[o].fill_count = 0 /\ exch[o].count > 1
                           THEN {exch[o].count \div 2} ELSE {}) :
                LET fc == exch[o].fill_count + n
                    p == exch[o].price
                IN /\ exch' = [exch EXCEPT
                                  ![o].fill_count = fc,
                                  ![o].status = IF fc = exch[o].count
                                                THEN "executed" ELSE "resting"]
                   /\ fills' = Append(fills,
                         [order_id |-> o, count |-> n,
                          yes_price |-> IF exch[o].side = "yes" THEN p ELSE 100 - p,
                          no_price |-> IF exch[o].side = "no" THEN p ELSE 100 - p])
    /\ obs' = [op |-> "-", check |-> NoCheck, sent |-> {}, placed |-> NoPlace,
            ret |-> Null, target |-> 0, used |-> {}, registered |-> {},
            settled |-> {}, mode |-> NoMode, cancels |-> {}]
    /\ UNCHANGED <<flight, call, strat, client, tasks, rm, positions, position_keys, trades, active_orders,
                   completed_orders, dry_run, fills_tick, running, enabled,
                   market, today, hist>>

\* The exchange cancels a resting order (its market closed).
ExchangeCancel ==
    /\ \E o \in DOMAIN exch :
          /\ exch[o].status = "resting"
          /\ exch' = [exch EXCEPT ![o].status = "canceled"]
    /\ obs' = [op |-> "-", check |-> NoCheck, sent |-> {}, placed |-> NoPlace,
            ret |-> Null, target |-> 0, used |-> {}, registered |-> {},
            settled |-> {}, mode |-> NoMode, cancels |-> {}]
    /\ UNCHANGED <<flight, call, strat, client, tasks, rm, positions, position_keys, trades, active_orders,
                   completed_orders, dry_run, fills_tick, running, enabled,
                   fills, market, today, hist>>

\* A market closes, its price still between the ends, or settles at YES
\* (99c) or at NO (1c).
MarketMove ==
    /\ \E t \in Tickers, y \in {1, 50, 99} :
          /\ market[t].status \in {"open", "closed"}
          /\ y = 50 => market[t].status = "open"
          /\ market' = [market EXCEPT ![t] =
                           [status |-> IF y = 50 THEN "closed" ELSE "settled",
                            yes_price |-> y]]
    /\ Commit(World, "-")
    /\ UNCHANGED <<flight, call, strat, client, tasks, dry_run, fills_tick, running, enabled, today, hist>>

\* Time passes for a trade: 2 s since submission, then more than 14 min.
Elapse ==
    /\ \E i \in 1..Len(trades) :
          /\ i \in active_orders
          /\ trades[i].age # "stale"
          /\ \A j \in active_orders :
                j < i => /\ trades[j].age # "fresh"
                         /\ trades[i].age = "aged" => trades[j].age = "stale"
          /\ trades' = [trades EXCEPT ![i].age =
                           IF @ = "fresh" THEN "aged" ELSE "stale"]
    /\ obs' = [op |-> "-", check |-> NoCheck, sent |-> {}, placed |-> NoPlace,
            ret |-> Null, target |-> 0, used |-> {}, registered |-> {},
            settled |-> {}, mode |-> NoMode, cancels |-> {}]
    /\ UNCHANGED <<flight, call, strat, client, tasks, rm, positions, position_keys, active_orders,
                   completed_orders, dry_run, fills_tick, running, enabled,
                   exch, fills, market, today, hist>>

\* UTC midnight.
NextDay ==
    /\ today < FirstDay + MaxDays
    /\ today' = today + 1
    /\ Commit(World, "-")
    /\ UNCHANGED <<flight, call, strat, client, tasks, dry_run, fills_tick, running, enabled, market, hist>>

Next ==
    \/ StartBot \/ StopBot \/ TradingTick \/ MonitorTick
    \/ CancelTrade \/ CancelAll \/ DecreaseTrade \/ AmendTrade
    \/ EmergencyHalt \/ ResetCircuitBreaker \/ SetMode \/ EnableStrategy
    \/ GetStatus
    \/ ExchangeFill \/ ExchangeCancel \/ MarketMove \/ Elapse \/ NextDay

Spec == Init /\ [][Next]_vars

(* The RiskManager under its callers: the gate call of execute_signal,    *)
(* record_trade with a filled Trade (a paper fill or a poll that finds the *)
(* order executed), close_position at a settlement.                        *)

RmCheckTradeAllowed ==
    /\ \E ticker \in Tickers, choice \in SignalChoices :
          LET Done(w) == Commit(w, "-") /\ KeepHist(w)
          IN Done(CallCheck(World, ticker, choice[2], choice[3]).w)
    /\ UNCHANGED <<flight, call, strat, client, tasks, dry_run, fills_tick, running, enabled, market, today>>

RmRecordTrade ==
    /\ \E ticker \in Tickers, choice \in SignalChoices :
          LET trade == [ticker |-> ticker, side |-> choice[1],
                        quantity |-> choice[2], price |-> choice[3],
                        status |-> "filled", filled_quantity |-> choice[2],
                        average_fill_price |-> choice[3],
                        cost |-> choice[2] * choice[3], pnl |-> Null,
                        order_id |-> 0, dry_run |-> dry_run, age |-> "aged"]
              w0 == [World EXCEPT !.trades = <<trade>>]
          IN /\ choice[2] * choice[3] <= Bankroll * position_ceiling_pct
             /\ TotalExposure(positions) + choice[2] * choice[3] <= MaxExposure
             /\ Commit([record_trade(w0, 1) EXCEPT !.trades = trades], "-")
    /\ UNCHANGED <<flight, call, strat, client, tasks, dry_run, fills_tick, running, enabled, market, today, hist>>

RmClosePosition ==
    /\ \E ticker \in Tickers, resolved_yes \in BOOLEAN :
          LET pnl == SettlementPnl(positions[ticker], resolved_yes)
          IN /\ positions[ticker].quantity > 0
             /\ rm.daily_realized_pnl + pnl >= 0 - MaxLoss
             /\ rm.daily_realized_pnl + pnl <= MaxGain
             /\ LET Done(w) == Commit(w, "-") /\ KeepHist(w)
                IN Done(close_position(World, ticker, pnl))
    /\ UNCHANGED <<flight, call, strat, client, tasks, dry_run, fills_tick, running, enabled, market, today>>

NextRisk ==
    \/ RmCheckTradeAllowed \/ RmRecordTrade \/ RmClosePosition
    \/ GetStatus \/ EmergencyHalt \/ ResetCircuitBreaker \/ NextDay

SpecRisk == Init /\ [][NextRisk]_vars

C5_BreakerClearedOnlyByResetOrMatchingRollover ==
    [][(rm.circuit_breaker_active /\ ~rm'.circuit_breaker_active)
       => \/ obs'.op = "reset_circuit_breaker"
          \/ /\ today > rm.daily_date
             /\ rm.circuit_breaker_reason = "Layer-1"
          \/ /\ _current_week_monday(today) > rm.weekly_start_date
             /\ rm.circuit_breaker_reason = "Layer-2"]_vars

\* A Layer-3 latch has gone through a day rollover and is still latched.
C5_Witness ==
    /\ obs.check.called
    /\ obs.check.active_at_call
    /\ obs.check.reason_at_call = "Layer-3"
    /\ obs.check.day_rolled
    /\ rm.circuit_breaker_active
    /\ rm.circuit_breaker_reason = "Layer-3"

(* C6: from the end of POST /emergency/halt until the operator's reset the *)
(* breaker is active, whatever its state before the halt.                  *)
C6_HaltHoldsUntilReset == hist.halted => rm.circuit_breaker_active

(* The seven gates alone: the RiskManager in the states trading leaves it *)
(* in, and one call of check_trade_allowed per step.                       *)

Range(f) == {f[i] : i \in DOMAIN f}

\* One fill of 4000 NO at 5c, and two of them merged.
GatePositions ==
    {NoPos, [side |-> "no", quantity |-> 4000, cost |-> 20000],
            [side |-> "no", quantity |-> 8000, cost |-> 40000]}

\* (breaker active, reason, daily realized P&L): a Layer-1 latch holds only
\* over the loss that tripped it; the operator may halt or reset any time.
GateBreakers ==
    {<<FALSE, "", 0>>, <<TRUE, "OPERATOR EMERGENCY HALT", 0>>,
     <<FALSE, "", 0 - 60000>>, <<TRUE, "Layer-1", 0 - 60000>>,
     <<TRUE, "OPERATOR EMERGENCY HALT", 0 - 60000>>}

InitGates ==
    /\ \E b \in GateBreakers, peak \in {BankrollCents, BankrollCents + 380000} :
          rm = [daily_date |-> FirstDay, daily_realized_pnl |-> b[3],
                weekly_start_date |-> _current_week_monday(FirstDay),
                weekly_start_equity |-> BankrollCents,
                weekly_peak_equity |-> peak, session_peak_equity |-> peak,
                circuit_breaker_active |-> b[1], circuit_breaker_reason |-> b[2],
                open_orders_count |-> 0]
    /\ positions \in [Range(GateTickers) -> GatePositions]
    /\ position_keys = SelectSeq(GateTickers, LAMBDA t : positions[t].quantity > 0)
    /\ trades = <<>>
    /\ active_orders = {}
    /\ completed_orders = <<>>
    /\ dry_run = TRUE
    /\ fills_tick = 0
    /\ running = TRUE
    /\ tasks = start(NoTasks)
    /\ flight = NoFlight
    /\ call = NoCall
    /\ strat = NoAnalysis
    /\ client = NewClient
    /\ enabled = TRUE
    /\ exch = [o \in 1..MaxOrders |-> NoOrder]
    /\ fills = <<>>
    /\ market = [t \in Range(GateTickers) |-> [status |-> "open", yes_price |-> 50]]
    /\ today \in {FirstDay, FirstDay + 1}
    /\ obs = [op |-> "-", check |-> NoCheck, sent |-> {}, placed |-> NoPlace,
            ret |-> Null, target |-> 0, used |-> {}, registered |-> {},
            settled |-> {}, mode |-> NoMode, cancels |-> {}]
    /\ hist = [reconciled |-> {}, submitted |-> {}, retired |-> {},
            loss_pending |-> "no", halted |-> FALSE,
            applied |-> {}, reapplied |-> {}]

GateCheck ==
    /\ \E ticker \in Range(GateTickers), choice \in SignalChoices :
          Commit(CallCheck(World, ticker, choice[2], choice[3]).w, "-")
    /\ UNCHANGED <<flight, call, strat, client, tasks, dry_run, fills_tick, running, enabled, market, today, hist>>

NextGates == GateCheck

SpecGates == InitGates /\ [][NextGates]_vars

\* The gates that fail for the call in obs.check, on the state the call's
\* resets leave: each stated from the RiskManager's fields.
FailingGates ==
    LET value == obs.check.quantity * obs.check.price
        equity == BankrollCents + rm.daily_realized_pnl
        peak == IF rm.weekly_peak_equity > equity
                THEN rm.weekly_peak_equity ELSE equity
        open == {t \in DOMAIN positions : positions[t].quantity > 0}
        exposure == TotalExposure(positions)
    IN {g \in 1..7 :
          \/ g = 1 /\ rm.circuit_breaker_active
          \/ g = 2 /\ value * 100 > BankrollCents * position_ceiling_pct
          \/ g = 3 /\ Cardinality(open) >= max_concurrent_positions
          \/ g = 4 /\ 0 - rm.daily_realized_pnl > 0
                   /\ (0 - rm.daily_realized_pnl) * 100
                         >= BankrollCents * circuit_breaker_loss_threshold
          \/ g = 5 /\ rm.weekly_peak_equity > 0
                   /\ (peak - equity) * 100 >= weekly_drawdown_cap * peak
          \/ g = 6 /\ (exposure + value) * 100
                         > BankrollCents * position_ceiling_pct * max_concurrent_positions
          \/ g = 7 /\ positions[obs.check.ticker].quantity > 0}

GateReason(g) ==
    CASE g = 1 -> rm.circuit_breaker_reason
      [] g = 2 -> "ceiling"
      [] g = 3 -> "concurrent"
      [] g = 4 -> "daily"
      [] g = 5 -> "weekly"
      [] g = 6 -> "exposure"
      [] g = 7 -> "ticker"

(* C7: check_trade_allowed answers (true, none) exactly when no gate       *)
(* fails, and otherwise (false, reason of the lowest-numbered failing      *)
(* gate), in the order breaker, ceiling, concurrent positions, daily loss, *)
(* weekly drawdown, total exposure, same ticker.                           *)
C7_LowestFailingGateDecides ==
    obs.check.called =>
        IF FailingGates = {}
        THEN obs.check.ok /\ obs.check.gate = 0 /\ obs.check.reason = ""
        ELSE LET g == CHOOSE x \in FailingGates : \A y \in FailingGates : x <= y
             IN /\ ~obs.check.ok
                /\ obs.check.gate = g
                /\ obs.check.reason = GateReason(g)

\* A call that fails several gates at once, refused by the exposure gate
\* while a position on its ticker is open.
C7_Witness ==
    /\ obs.check.called
    /\ obs.check.gate = 6
    /\ 7 \in FailingGates

\* Paper trading: the mode the bot is constructed in, never switched.
NextPaper ==
    \/ StartBot \/ StopBot \/ TradingTick \/ MonitorTick
    \/ CancelTrade \/ CancelAll \/ GetStatus
    \/ EmergencyHalt \/ ResetCircuitBreaker \/ EnableStrategy
    \/ MarketMove \/ Elapse

SpecPaper == Init /\ [][NextPaper]_vars

\* The keys of RiskManager.positions, each open ticker once.
OnePositionPerTicker ==
    /\ \A i, j \in DOMAIN position_keys :
          position_keys[i] = position_keys[j] => i = j
    /\ Range(position_keys) = OpenTickers(positions)

(* C8: positions holds at most one Position per ticker, and a call of      *)
(* check_trade_allowed on a ticker whose Position is open is refused, so   *)
(* the execute_signal that made the call creates no trade.                 *)
C8_OnePositionPerTickerGateRefuses ==
    [][/\ OnePositionPerTicker'
       /\ (obs'.check.called /\ obs'.check.position_open)
             => (~obs'.check.ok /\ trades' = trades)]_vars

\* A signal on a ticker with an open position was refused by Gate 7.
C8_Witness ==
    /\ obs.check.called
    /\ obs.check.position_open
    /\ obs.check.gate = 7
    /\ positions[obs.check.ticker].quantity > 0
    /\ \E i \in DOMAIN trades :
          trades[i].ticker = obs.check.ticker /\ trades[i].status = "filled"

\* The trades on ticker t that are working or filled.
LiveTradesOn(t) ==
    {i \in DOMAIN trades :
        trades[i].ticker = t /\ trades[i].status \in {"pending", "submitted", "filled"}}

(* C9: a market that signals on consecutive trading ticks gets exactly one *)
(* trade, and its Position is that trade's quantity, worth no more than    *)
(* bankroll x position_ceiling_pct.                                        *)
C9_OneTradePerMarketWithinCeiling ==
    \A t \in Tickers :
        /\ Cardinality(LiveTradesOn(t)) <= 1
        /\ positions[t].cost <= Bankroll * position_ceiling_pct

\* Orders on the exchange, within one UTC day and one market window.
NextLive ==
    \/ StartBot \/ SwitchMode \/ TradingTick \/ MonitorTick
    \/ CancelTrade \/ CancelAll \/ DecreaseTrade \/ AmendTrade
    \/ ExchangeFill \/ ExchangeCancel \/ Elapse

SpecLive == Init /\ [][NextLive]_vars

(* C1: a Trade whose status is FILLED, CANCELLED, REJECTED or FAILED keeps *)
(* that status in every later step.                                        *)
C1_TerminalStatusIsFinal ==
    [][\A i \in DOMAIN trades :
          trades[i].status \in TerminalStates
             => trades'[i].status = trades[i].status]_vars

(* C2: a trade that fills reconciliation has set to FILLED is never        *)
(* SUBMITTED afterwards.                                                   *)
C2_ReconciledNeverSubmitted ==
    \A i \in hist.reconciled : trades[i].status # "submitted"

C10_FilledWithinQuantity ==
    \A i \in DOMAIN trades : trades[i].filled_quantity <= trades[i].quantity

(* C11: a Trade built by execute_signal has an exchange order id if and    *)
(* only if it is not a dry-run trade and its status has at some point been *)
(* SUBMITTED.                                                              *)
C11_OrderIdIffLiveAndSubmitted ==
    \A i \in DOMAIN trades :
        (trades[i].order_id # 0) <=> (~trades[i].dry_run /\ i \in hist.submitted)

(* C12: when the POST of place_order is answered 409 for its own           *)
(* client_order_id, the Trade has the exchange order id the accepted       *)
(* response carried, and status SUBMITTED.                                 *)
C12_ConflictSameAsAccepted ==
    obs.placed.outcome \in Conflicts
       => /\ trades[Len(trades)].status = "submitted"
          /\ trades[Len(trades)].order_id = obs.placed.exchange_order

(* C13: cancel_order on a trade whose status is FILLED, CANCELLED,         *)
(* REJECTED or FAILED returns false, sends no request, and leaves the      *)
(* trades, active_orders and completed_orders as they were.                *)
C13_CancelTerminalIsNoOp ==
    [][(obs'.op = "cancel_order"
        /\ trades[obs'.target].status \in TerminalStates)
          => /\ obs'.ret = FALSE
             /\ obs'.sent = {}
             /\ trades' = trades
             /\ active_orders' = active_orders
             /\ completed_orders' = completed_orders]_vars

\* cancel_order has refused a trade that reconciliation marked FILLED and
\* that still sits in active_orders with its exchange order id.
C13_Witness ==
    /\ obs.op = "cancel_order"
    /\ obs.ret = FALSE
    /\ obs.sent = {}
    /\ obs.target \in active_orders
    /\ trades[obs.target].order_id # 0
    /\ trades[obs.target].status = "filled"

(* C14: a live amend that replaces exchange order A by B leaves the trade  *)
(* with order id B and the amended price, and no later status poll,        *)
(* cancel or batch cancel names A.                                         *)
C14_AmendedOrderReplacesOld ==
    [][/\ \A i \in DOMAIN trades :
             (trades[i].order_id # 0 /\ trades'[i].order_id # trades[i].order_id)
                => /\ trades'[i].order_id = NextOrderId(exch)
                   /\ exch'[trades'[i].order_id].status = "resting"
                   /\ trades'[i].price = exch'[trades'[i].order_id].price
                   /\ hist'.retired = hist.retired \cup {trades[i].order_id}
       /\ obs'.used \cap hist.retired = {}]_vars

\* After an amend from order A to B a status poll has asked for B, not A.
C14_Witness ==
    /\ hist.retired # {}
    /\ obs.used # {}
    /\ obs.sent = {}
    /\ \E i \in DOMAIN trades :
          /\ trades[i].order_id \in obs.used
          /\ trades[i].order_id \notin hist.retired
          /\ Mills(trades[i].price) \in AmendPrices

\* The trades an operation has moved to CANCELLED, from world w to world r.
NewlyCancelled(w, r) ==
    {i \in DOMAIN w.trades :
        w.trades[i].status # "cancelled" /\ r.trades[i].status = "cancelled"}

(* C15: in every reachable state, live or dry-run, whatever the batch      *)
(* cancel answers, cancel_all_orders returns exactly the number of trades  *)
(* it moves to CANCELLED.                                                  *)
C15_CancelAllReturnsCancelledCount ==
    \A outcome \in Answers :
        LET r == cancel_all_orders(World, outcome)
        IN r.ret = Cardinality(NewlyCancelled(World, r))

(* C16: in every reachable state, live or dry-run, decrease_order called   *)
(* with both reduce_by and reduce_to, or with neither, returns false and   *)
(* sends no request.                                                       *)
C16_DecreaseNeedsExactlyOne ==
    \A id \in DOMAIN trades, outcome \in Answers,
       args \in ({Null} \X {Null}) \cup (DecreaseBy \X DecreaseTo) :
        LET r == decrease_order(World, id, args[1], args[2], outcome)
        IN r.ret = FALSE /\ r.sent = {}

(* C17: a decrease_order with reduce_to = 0 that succeeds leaves the trade *)
(* as a successful cancel_order does: CANCELLED, out of active_orders and  *)
(* in completed_orders.                                                    *)
C17_DecreaseToZeroIsCancel ==
    \A id \in DOMAIN trades, outcome \in Answers :
        LET d == decrease_order(World, id, Null, 0, outcome)
            c == cancel_order(World, id, outcome)
        IN (d.ret = TRUE /\ c.ret = TRUE)
              => /\ d.trades[id].status = "cancelled"
                 /\ d.active_orders = c.active_orders
                 /\ d.completed_orders = c.completed_orders

(* C18: a PENDING paper trade is marked FILLED no earlier than 2 s after   *)
(* its submission, and the fill sets filled_quantity = quantity,           *)
(* average_fill_price = limit price and cost, leaves pnl null, and         *)
(* registers a Position for the ticker.                                    *)
C18_PaperFillAfterDelayAtLimit ==
    [][\A i \in DOMAIN trades :
          (trades[i].dry_run /\ trades[i].status = "pending"
           /\ trades'[i].status = "filled")
             => /\ dry_run
                /\ trades[i].age # "fresh"
                /\ trades'[i].filled_quantity = trades[i].quantity
                /\ trades'[i].average_fill_price = trades[i].price
                /\ trades'[i].cost = trades[i].quantity * trades[i].price
                /\ trades'[i].pnl = Null
                /\ trades[i].ticker \in obs'.registered]_vars

\* The monitor has just filled a paper trade; its Position is open.
C18_Witness ==
    /\ dry_run
    /\ obs.registered # {}
    /\ \E i \in DOMAIN trades :
          /\ trades[i].dry_run
          /\ trades[i].status = "filled"
          /\ trades[i].ticker \in obs.registered
          /\ trades[i].cost = trades[i].quantity * trades[i].price
          /\ positions[trades[i].ticker].quantity >= trades[i].quantity
          /\ i \notin active_orders

\* The sum of the P&L of a set of settlements.
RECURSIVE SettledPnl(_)
SettledPnl(S) ==
    IF S = {} THEN 0
    ELSE LET c == CHOOSE x \in S : TRUE
         IN c.pnl + SettledPnl(S \ {c})

(* C19: the paper-settlement scan closes a position only if its market is  *)
(* closed or settled with yes_price >= 0.99 or <= 0.01; the position is    *)
(* then removed and daily realized P&L moves by (1 - entry) x qty if the   *)
(* holder's side won and by -entry x qty if it lost; any other position    *)
(* and the realized P&L are unchanged.                                     *)
C19_SettlementOnlyWhenResolved ==
    [][/\ \A c \in obs'.settled :
             /\ c.market.status \in {"closed", "settled"}
             /\ c.market.yes_price >= 99 \/ c.market.yes_price <= 1
             /\ positions'[c.ticker] = NoPos
             /\ c.pnl = IF (c.pos.side = "yes") = (c.market.yes_price >= 99)
                        THEN 100 * c.pos.quantity - c.pos.cost
                        ELSE 0 - c.pos.cost
       /\ rm'.daily_realized_pnl
             = rm.daily_realized_pnl + SettledPnl(obs'.settled)
       /\ \A t \in Tickers :
             (t \notin {c.ticker : c \in obs'.settled} /\ t \notin obs'.registered)
                => positions'[t] = positions[t]]_vars

\* A scan has settled a NO position won at 1c while the other market's
\* position, its market closed at 50c, stayed.
C19_Witness ==
    /\ \E c \in obs.settled :
          /\ c.pos.side = "no" /\ c.market.yes_price = 1 /\ c.pnl > 0
    /\ \E t \in Tickers :
          /\ positions[t].quantity > 0
          /\ market[t].status = "closed"
          /\ t \notin obs.registered

NextMode ==
    \/ StartBot \/ SetMode \/ TradingTick \/ MonitorTick \/ CancelAll
    \/ ExchangeFill \/ Elapse

SpecMode == Init /\ [][NextMode]_vars

(* C22: a POST /mode with mode = live is answered 400 and leaves the       *)
(* dry_run flags as they were unless risk_acknowledged is true and         *)
(* confirmed_bankroll > 0; when both hold, the flags become false.         *)
C22_LiveNeedsAckAndBankroll ==
    [][(obs'.mode.asked /\ obs'.mode.mode = "live")
          => IF obs'.mode.risk_acknowledged /\ obs'.mode.confirmed_bankroll > 0
             THEN dry_run' = FALSE /\ obs'.mode.status = 200
             ELSE dry_run' = dry_run /\ obs'.mode.status = 400]_vars

\* A live request with the acknowledgement but no bankroll was refused in
\* paper mode, which stays.
C22_Witness ==
    /\ obs.mode.asked
    /\ obs.mode.mode = "live"
    /\ obs.mode.risk_acknowledged
    /\ obs.mode.confirmed_bankroll = 0
    /\ obs.mode.status = 400
    /\ dry_run

(* The bot's start and stop, step by step, next to paper trading. *)
NextStop ==
    \/ StartBot \/ StopCall \/ AwaitedTaskExits \/ StopMonitoring \/ StopReturns
    \/ TradingTick \/ MonitorTick \/ Elapse

SpecStop == Init /\ [][NextStop]_vars

(* C23: in the step of stop that cancels the trading task, the monitor     *)
(* task has been cancelled and has exited.                                 *)
C23_MonitorExitsBeforeMainCancelled ==
    [][(tasks.main = "running" /\ tasks'.main = "cancelled")
          => tasks.monitor = "exited"]_vars

(* C23, amended: in the step of stop that cancels the monitor task, the    *)
(* trading task that stop cancelled has exited.                            *)
C23_MainExitsBeforeMonitorCancelled ==
    [][(tasks.monitor = "running" /\ tasks'.monitor = "cancelled")
          => /\ tasks.stop = "await_main"
             /\ tasks.awaited = "exited"]_vars

\* stop has cancelled the monitor task after the trading task had exited.
C23_Witness ==
    /\ tasks.stop = "await_monitor"
    /\ tasks.monitor = "cancelled"
    /\ tasks.main = "exited"

\* Prices in mills asked of place_order and of amend_order: below, at and
\* above the two ends of the range, and the halves that round out of it.
PriceInputs == {0, 4, 5, 6, 10, 500, 990, 994, 995, 1000}

(* C24: in every reachable state, the price in a request that place_order  *)
(* or amend_order sends is a whole number of cents in 1..99, and a price   *)
(* that rounds below 1 or above 99 sends no request.                       *)
C24_SentPricesWithinRange ==
    \A p \in PriceInputs, outcome \in Answers :
        /\ LET e == client_place_order(World, "yes", 1, p, dry_run, "accepted")
           IN /\ \A r \in e.w.sent : r.price \in 1..99
              /\ RoundCents(p) \notin 1..99 => e.w.sent = {}
        /\ \A id \in DOMAIN trades :
              LET a == amend_order(World, id, p, Null, outcome)
              IN /\ \A r \in a.sent : r.price \in 1..99
                 /\ RoundCents(p) \notin 1..99 => a.sent = {}

----------------------------------------------------------------------------
(* The rate limiter under concurrent callers *)

MaxClock == 7
MaxRequests == 3

\* A coroutine calls _request: it passes the rate limiter at once or is
\* suspended in its sleep.
ClientRequest ==
    /\ Len(client.requests) + Cardinality({c \in Callers : client.waiting[c] # NotWaiting})
          < MaxRequests
    /\ \E caller \in Callers :
          /\ client.waiting[caller] = NotWaiting
          /\ client' = _rate_limit(client, caller)
    /\ UNCHANGED <<flight, call, strat, rm, positions, position_keys, trades, active_orders, completed_orders,
                   dry_run, fills_tick, running, tasks, enabled, exch, fills, market,
                   today, obs, hist>>

\* asyncio.sleep is over: the caller resumes and sends.
ClientResume ==
    /\ \E caller \in Callers :
          /\ client.waiting[caller] # NotWaiting
          /\ client.now >= client.waiting[caller]
          /\ client' = _request(client, caller)
    /\ UNCHANGED <<flight, call, strat, rm, positions, position_keys, trades, active_orders, completed_orders,
                   dry_run, fills_tick, running, tasks, enabled, exch, fills, market,
                   today, obs, hist>>

\* A tenth of a second passes.
ClockTick ==
    /\ client.now < MaxClock
    /\ client' = [client EXCEPT !.now = @ + 1]
    /\ UNCHANGED <<flight, call, strat, rm, positions, position_keys, trades, active_orders, completed_orders,
                   dry_run, fills_tick, running, tasks, enabled, exch, fills, market,
                   today, obs, hist>>

NextRate == ClientRequest \/ ClientResume \/ ClockTick

SpecRate == Init /\ [][NextRate]_vars

(* C25: in every reachable state, any two requests the client has sent are *)
(* at least rate_limit_delay (200 ms) apart, whichever callers sent them.  *)
C25_RequestsSpaced ==
    \A i, j \in DOMAIN client.requests :
        i < j => client.requests[j] - client.requests[i] >= rate_limit_delay

----------------------------------------------------------------------------
(* The strategy's gates and sizing *)

\* Seconds to the window's end: around the ends of the code's window and
\* of the window of 30 s to 10 min.
TimeInputs == {0, 29, 30, 89, 90, 600, 601, 840, 841}
\* Market yes prices in cents.
YesPrices == {0, 5, 50, 83, 84, 99, 100}
\* Market yes prices in cents of the markets analyze is called on.
AnalyzePrices == {0, 50, 84}
\* The model's probability in mills.
TrueProbs == {899, 950}
SampleCounts == {4, 5}
\* Edges in mills handed to the sizing.
SizeEdges == {0, 1, 10, 50, 100, 500}

\* One call of analyze by the trading loop.
Analyze ==
    /\ \E is_tradeable \in BOOLEAN, time_remaining \in TimeInputs, yes_price \in AnalyzePrices,
          samples \in SampleCounts, true_prob \in TrueProbs,
          volatility_positive \in BOOLEAN, volatility_spike \in BOOLEAN :
          LET in == [is_tradeable |-> is_tradeable, time_remaining |-> time_remaining,
                     yes_price |-> yes_price, samples |-> samples,
                     true_prob |-> true_prob,
                     volatility_positive |-> volatility_positive,
                     volatility_spike |-> volatility_spike]
          IN strat' = [op |-> "analyze", in |-> in, out |-> analyze(in)]
    /\ UNCHANGED <<flight, call, client, rm, positions, position_keys, trades, active_orders,
                   completed_orders, dry_run, fills_tick, running, tasks, enabled, exch,
                   fills, market, today, obs, hist>>

\* One call of _calculate_position_size with the configured bankroll.
PositionSize ==
    /\ \E edge \in SizeEdges, market_price \in YesPrices :
          strat' = [op |-> "size", edge |-> edge, market_price |-> market_price,
                    quantity |-> _calculate_position_size(edge, Bankroll, market_price)]
    /\ UNCHANGED <<flight, call, client, rm, positions, position_keys, trades, active_orders,
                   completed_orders, dry_run, fills_tick, running, tasks, enabled, exch,
                   fills, market, today, obs, hist>>

NextStrategy == Analyze \/ PositionSize

SpecStrategy == Init /\ [][NextStrategy]_vars

(* C26: analyze returns no signal when the time to the window's end is     *)
(* below 30 s or above 600 s, and between 30 s and 600 s inclusive it does *)
(* not return none on time grounds.                                        *)
C26_TimeWindow30To600 ==
    strat.op = "analyze" =>
        /\ (strat.in.time_remaining < 30 \/ strat.in.time_remaining > 600)
              => ~strat.out.signal
        /\ (strat.in.time_remaining >= 30 /\ strat.in.time_remaining <= 600)
              => strat.out.reason \notin {"too_close", "too_far"}

(* C27: with a bankroll of $10 000, for every edge > 0 and every market    *)
(* price strictly between 0 and 1, the quantity lies between floor(50 /    *)
(* price) and floor(200 / price), and is at least 1.                       *)
C27_QuantityWithinAllocation ==
    (strat.op = "size" /\ strat.edge > 0
        /\ strat.market_price > 0 /\ strat.market_price < 100)
    => /\ strat.quantity >= 5000 \div strat.market_price
       /\ strat.quantity <= 20000 \div strat.market_price
       /\ strat.quantity >= 1

----------------------------------------------------------------------------
(* One call of _request_with_retry against every sequence of responses *)

\* A caller calls _request_with_retry: the first request goes out.
RetryCall ==
    /\ call.pc \in {"idle", "returned", "raised"}
    /\ \E method \in Methods : call' = NewCall(method)
    /\ UNCHANGED <<flight, strat, client, rm, positions, position_keys, trades, active_orders,
                   completed_orders, dry_run, fills_tick, running, tasks, enabled, exch,
                   fills, market, today, obs, hist>>

\* The request is answered, or fails on the network.
RetryAnswer ==
    /\ call.pc = "requesting"
    /\ \E response \in Responses : call' = _request_with_retry(call, response)
    /\ UNCHANGED <<flight, strat, client, rm, positions, position_keys, trades, active_orders,
                   completed_orders, dry_run, fills_tick, running, tasks, enabled, exch,
                   fills, market, today, obs, hist>>

\* The back-off sleep is over.
RetryWake ==
    /\ call.pc = "sleeping"
    /\ call' = next_attempt(call)
    /\ UNCHANGED <<flight, strat, client, rm, positions, position_keys, trades, active_orders,
                   completed_orders, dry_run, fills_tick, running, tasks, enabled, exch,
                   fills, market, today, obs, hist>>

NextRetry == RetryCall \/ RetryAnswer \/ RetryWake

SpecRetry == Init /\ [][NextRetry]_vars

(* C28: whatever the responses, a call has made at most 4 requests and is  *)
(* over once the fourth is answered; a 429 answering request n + 1         *)
(* (n = 0, 1, 2) is retried after 2^n seconds, and a 429 answering the     *)
(* fourth request, the third retry, is given up: the call raises.          *)
C28_AtMostFourRequests ==
    /\ Requests(call) <= 4
    /\ Len(call.answers) = 4 => call.pc \in {"returned", "raised"}
    /\ \A i \in DOMAIN call.answers :
          call.answers[i] = "429"
          => IF i <= 3
             THEN /\ Len(call.slept) >= i
                  /\ call.slept[i] = Pow2(i - 1)
             ELSE call.pc = "raised"

\* Three 429s were retried, after 1, 2 and 4 seconds, and the fourth was
\* given up.
C28_Witness ==
    /\ call.answers = <<"429", "429", "429", "429">>
    /\ call.slept = <<1, 2, 4>>
    /\ call.pc = "raised"

(* C29: in a call, the first 5xx answer is retried after 2 seconds,        *)
(* whatever answers came before it, and a later 5xx is not retried: the    *)
(* call raises on it.                                                      *)
C29_First5xxRetriedOnce ==
    LET at5xx == {i \in DOMAIN call.answers : call.answers[i] = "5xx"}
    IN \A i \in at5xx :
          IF \A j \in at5xx : i <= j
          THEN /\ Len(call.slept) >= i
               /\ call.slept[i] = 2
          ELSE /\ i = Len(call.answers)
               /\ call.pc = "raised"

(* C30: in every reachable state, for every signal, when execute_signal's  *)
(* POST of the order is answered with a status that is not 2xx, 409, 429   *)
(* or 5xx, exactly one request was sent, the trade execute_signal returns  *)
(* is FAILED and is not in active_orders, and the positions are as they    *)
(* were.                                                                   *)
C30_RefusedOrderFails ==
    \A ticker \in Tickers, choice \in SignalChoices, quality \in SignalQualities :
        LET w == execute_signal(World,
                    [valid |-> quality[1], edge |-> quality[2],
                     confidence_ok |-> quality[3], ticker |-> ticker,
                     side |-> choice[1], quantity |-> choice[2],
                     price |-> choice[3]], "rejected")
        IN w.placed.outcome = "rejected"
           => /\ w.placed.requests = 1
              /\ Len(w.trades) = Len(trades) + 1
              /\ w.trades[Len(w.trades)].status = "failed"
              /\ Len(w.trades) \notin w.active_orders
              /\ w.active_orders = active_orders
              /\ w.positions = positions
              /\ w.position_keys = position_keys

\* A trading tick's live order was refused: one request, and the trade is
\* FAILED and not among the active orders.
C30_Witness ==
    /\ obs.placed.outcome = "rejected"
    /\ obs.placed.requests = 1
    /\ \E r \in obs.sent : r.kind = "place"
    /\ trades[Len(trades)].status = "failed"
    /\ Len(trades) \notin active_orders

(* C31: in every step that sets a trade resting at the exchange (a trade   *)
(* that is no dry-run trade and has an exchange order id) to CANCELLED,    *)
(* the exchange has that order as canceled: it acknowledged the cancel in  *)
(* the step or had canceled the order before.                              *)
C31_CancelledOnlyWhenExchangeCanceled ==
    [][\A i \in DOMAIN trades :
          (/\ trades[i].status # "cancelled"
           /\ trades'[i].status = "cancelled"
           /\ ~trades[i].dry_run
           /\ trades[i].order_id # 0)
          => exch'[trades[i].order_id].status = "canceled"]_vars

\* The step is one pass of the monitor loop.
MonitorTicked == fills_tick' # fills_tick /\ tasks' = tasks

\* After the pass the trade is still active, SUBMITTED and older than 14 min.
StillStale(i) ==
    /\ i \in active_orders'
    /\ trades'[i].status = "submitted"
    /\ trades'[i].age = "stale"

(* C32: in every pass of the monitor loop, (1) a trade that is still       *)
(* active, SUBMITTED and older than 14 minutes after the pass had a cancel *)
(* request sent for its order, which the exchange did not accept; (2) a    *)
(* trade whose cancel request the exchange accepted is CANCELLED, out of   *)
(* active_orders, and open_orders_count is the number of active orders;    *)
(* (3) a trade the pass set to CANCELLED while its order rested had a      *)
(* cancel request sent; (4) no cancel request is sent for a trade that is  *)
(* not older than 14 minutes.                                              *)
C32_StaleSubmittedAutoCancelled ==
    [][MonitorTicked =>
         \A i \in DOMAIN trades :
            LET o == trades[i].order_id
            IN /\ StillStale(i) => trades'[i].order_id \in obs'.cancels
               /\ (/\ i \in active_orders /\ o \in obs'.cancels
                   /\ exch[o].status = "resting" /\ exch'[o].status = "canceled")
                     => /\ trades'[i].status = "cancelled"
                        /\ i \notin active_orders'
                        /\ rm'.open_orders_count = Cardinality(active_orders')
               /\ (/\ trades[i].status # "cancelled" /\ trades'[i].status = "cancelled"
                   /\ o # 0 /\ exch[o].status = "resting")
                     => o \in obs'.cancels
               /\ (i \in active_orders /\ o \in obs'.cancels)
                     => trades[i].age = "stale"]_vars

(* C33: at every scheduling point (after each monitor tick, execute_signal, *)
(* cancel, cancel_all and metrics recomputation) the open-order count kept *)
(* by the RiskManager equals the number of trades in active_orders.        *)
C33_OpenCountMatchesActive ==
    rm.open_orders_count = Cardinality(active_orders)

C33_Witness ==
    /\ active_orders # {}
    /\ rm.open_orders_count = Cardinality(active_orders)
    /\ Len(completed_orders) > 0

(***************************************************************************)
(* The cap of completed_orders.  The bot has run in paper mode long enough *)
(* to have CompletedCap - CapSlack .. CompletedCap completed trades (all   *)
(* cancelled by cancel_all_orders), has been switched to live mode and has *)
(* one order resting on each ticker.  DELETE /orders/{trade_id} requests   *)
(* for the listed active trades then cancel them one by one.               *)
(***************************************************************************)
CapSlack == 2

CapTickers == <<"T1", "T2">>

CapTrade(ticker, choice, live) ==
    [ticker |-> ticker, side |-> choice[1], quantity |-> choice[2],
     price |-> choice[3], status |-> IF live > 0 THEN "submitted" ELSE "cancelled",
     filled_quantity |-> 0, average_fill_price |-> 0, cost |-> 0, pnl |-> Null,
     order_id |-> live, dry_run |-> live = 0, age |-> "fresh"]

InitCap ==
    /\ rm = [daily_date |-> FirstDay, daily_realized_pnl |-> 0,
             weekly_start_date |-> _current_week_monday(FirstDay),
             weekly_start_equity |-> BankrollCents,
             weekly_peak_equity |-> BankrollCents,
             session_peak_equity |-> BankrollCents,
             circuit_breaker_active |-> FALSE, circuit_breaker_reason |-> "",
             open_orders_count |-> Len(CapTickers)]
    /\ positions = [t \in Tickers |-> NoPos]
    /\ position_keys = <<>>
    /\ \E n \in (CompletedCap - CapSlack)..CompletedCap,
          old \in SignalChoices, new \in [1..Len(CapTickers) -> SignalChoices] :
          /\ trades = [i \in 1..(n + Len(CapTickers)) |->
                          IF i <= n
                          THEN CapTrade(CapTickers[(i % Len(CapTickers)) + 1], old, 0)
                          ELSE CapTrade(CapTickers[i - n], new[i - n], i - n)]
          /\ active_orders = (n + 1)..(n + Len(CapTickers))
          /\ completed_orders = [i \in 1..n |-> i]
          /\ exch = [o \in 1..MaxOrders |->
                        IF o <= Len(CapTickers)
                        THEN [status |-> "resting", count |-> new[o][2],
                              fill_count |-> 0, price |-> new[o][3],
                              side |-> new[o][1]]
                        ELSE NoOrder]
          /\ hist = [reconciled |-> {}, submitted |-> (n + 1)..(n + Len(CapTickers)),
                     retired |-> {}, loss_pending |-> "no", halted |-> FALSE,
            applied |-> {}, reapplied |-> {}]
    /\ dry_run = FALSE
    /\ fills_tick = 0
    /\ running = TRUE
    /\ tasks = start(NoTasks)
    /\ flight = NoFlight
    /\ call = NoCall
    /\ strat = NoAnalysis
    /\ client = NewClient
    /\ enabled = TRUE
    /\ fills = <<>>
    /\ market = [t \in Tickers |-> [status |-> "open", yes_price |-> 50]]
    /\ today = FirstDay
    /\ obs = [op |-> "-", check |-> NoCheck, sent |-> {}, placed |-> NoPlace,
            ret |-> Null, target |-> 0, used |-> {}, registered |-> {},
            settled |-> {}, mode |-> NoMode, cancels |-> {}]

CancelActive ==
    /\ \E id \in active_orders, outcome \in Answers :
          Commit([cancel_order(World, id, outcome) EXCEPT !.target = id],
                 "cancel_order")
    /\ UNCHANGED <<flight, call, strat, client, tasks, dry_run, fills_tick, running, enabled, market, today, hist>>

NextCap == CancelActive

SpecCap == InitCap /\ [][NextCap]_vars

Moved == active_orders \ active_orders'

Dropped == Len(completed_orders) + Cardinality(Moved) - Len(completed_orders')

(* C34: completed_orders never holds more than 500 trades; when trades are *)
(* moved to a list that is (or becomes) full, the oldest entries are       *)
(* dropped, the order of the remaining ones is preserved and the moved     *)
(* trades are at the end.                                                  *)
C34_CompletedCapped ==
    [][/\ Len(completed_orders') <= 500
       /\ Len(completed_orders') =
              IF Len(completed_orders) + Cardinality(Moved) > 500 THEN 500
              ELSE Len(completed_orders) + Cardinality(Moved)
       /\ \A j \in 1..(Len(completed_orders') - Cardinality(Moved)) :
             completed_orders'[j] = completed_orders[j + Dropped]
       /\ {completed_orders'[j] :
              j \in (Len(completed_orders') - Cardinality(Moved) + 1)
                    ..Len(completed_orders')} = Moved]_vars

C34_Witness ==
    /\ Len(completed_orders) = 500
    /\ completed_orders[1] = 3
    /\ completed_orders[500] = 502
    /\ active_orders = {}

(* C35: whenever TradingBot.running is true and no start or stop call is   *)
(* in progress, the monitor task is alive, for every interleaving of       *)
(* start, stop and emergency-halt calls.                                   *)
C35_RunningImpliesMonitorAlive ==
    (running /\ tasks.stop = "idle") => tasks.monitor = "running"

(***************************************************************************)
(* Placing an order step by step: the trading task sends the POST and is   *)
(* suspended until the response arrives, and TradingBot.stop may cancel it *)
(* in between.                                                             *)
(***************************************************************************)
\* _trading_loop reaches execute_signal in live mode with a signal that
\* passes the gates; place_order sends the request and awaits the response.
PlaceSend ==
    /\ running /\ tasks.main = "running" /\ enabled
    /\ ~dry_run /\ ~flight.busy
    /\ Len(trades) < MaxLiveTrades
    /\ \E ticker \in Tickers, choice \in SignalChoices, outcome \in Outcomes :
          /\ market[ticker].status = "open"
          /\ check_trade_allowed(World, ticker, choice[2], choice[3]).ok
          /\ flight' = [busy |-> TRUE, cancelled |-> FALSE,
                        sig |-> [valid |-> TRUE, edge |-> 8, confidence_ok |-> TRUE,
                                 ticker |-> ticker, side |-> choice[1],
                                 quantity |-> choice[2], price |-> choice[3]],
                        outcome |-> outcome]
    /\ Commit(World, "-")
    /\ UNCHANGED <<call, strat, client, tasks, dry_run, fills_tick, running, enabled, market, today, hist>>

\* The response arrives and execute_signal runs to its end.
PlaceReturn ==
    /\ flight.busy /\ ~flight.cancelled
    /\ LET Done(w) == Commit(w, "-") /\ KeepHist(w)
       IN Done(execute_signal(World, flight.sig, flight.outcome))
    /\ flight' = NoFlight
    /\ UNCHANGED <<call, strat, client, tasks, dry_run, fills_tick, running, enabled, market, today>>

NextFlight ==
    \/ StartBot \/ SwitchMode \/ PlaceSend \/ PlaceReturn
    \/ StopCall \/ AwaitedTaskExits \/ StopMonitoring \/ StopReturns
    \/ MonitorTick

SpecFlight == Init /\ [][NextFlight]_vars

InCompleted(i) == \E j \in 1..Len(completed_orders') : completed_orders'[j] = i

(* C36: every order the exchange accepted in live mode is tracked by the   *)
(* OrderManager (its trade is in active_orders or completed_orders) once   *)
(* the placing task has finished, also when TradingBot.stop cancelled the  *)
(* task while its place_order request was in flight.                       *)
C36_AcceptedOrderTracked ==
    [][\A o \in DOMAIN exch :
          (exch[o].status = "none" /\ exch'[o].status # "none" /\ ~flight'.busy)
             => \E i \in DOMAIN trades' :
                   /\ i \notin DOMAIN trades
                   /\ i \in active_orders' \/ InCompleted(i)]_vars

(* C37: at the end of every OrderManager operation and monitor tick,       *)
(* active_orders holds only PENDING or SUBMITTED trades, completed_orders  *)
(* holds only trades in a terminal state, and no trade is in both.         *)
C37_ActiveOpenCompletedTerminal ==
    /\ \A i \in active_orders : trades[i].status \in {"pending", "submitted"}
    /\ \A j \in 1..Len(completed_orders) :
          /\ trades[completed_orders[j]].status \in TerminalStates
          /\ completed_orders[j] \notin active_orders

(* C38: whenever a trade is FILLED at the end of a monitor tick, its fill  *)
(* has been applied to RiskManager.positions exactly once, in live and in  *)
(* paper mode.                                                             *)
C38_FilledAppliedOnce ==
    [][MonitorTicked =>
         \A i \in DOMAIN trades' :
            trades'[i].status = "filled"
               => i \in hist'.applied /\ i \notin hist'.reapplied]_vars

(***************************************************************************)
(* The monitor keeps ticking and the exchange answers every request: the   *)
(* bot is started and never stopped, every request of a monitor pass is    *)
(* answered, time passes, and the monitor loop, which sleeps two seconds   *)
(* between passes, is scheduled again and again.                           *)
(***************************************************************************)
\* One pass of _monitor_loop in which no request fails.
MonitorTickAnswered ==
    /\ tasks.monitoring /\ tasks.monitor = "running"
    /\ LET Done(r) == /\ Commit(r.w, "-")
                      /\ KeepHist(r.w)
                      /\ fills_tick' = r.fills_tick
       IN Done(_monitor_loop(World, fills_tick, {}, FALSE, {}, {}))
    /\ UNCHANGED <<flight, call, strat, client, tasks, dry_run, running, enabled, market, today>>

NextAnswered ==
    \/ StartBot \/ SwitchMode \/ TradingTick \/ MonitorTickAnswered
    \/ ExchangeFill \/ MarketMove \/ Elapse

\* The monitor task exists and has not been cancelled: a pass can be taken.
MonitorRuns == tasks.monitoring /\ tasks.monitor = "running"

\* Weak fairness of the monitor pass and of the passing of time.  The first
\* is WF_vars(MonitorTickAnswered) with the pass's enabling condition written
\* out: a pass is possible exactly when MonitorRuns, and always changes
\* fills_tick.
SpecAnswered ==
    /\ Init
    /\ [][NextAnswered]_vars
    /\ (<>[]MonitorRuns => []<><<MonitorTickAnswered>>_vars)
    /\ WF_vars(Elapse)

(* C39: while the monitor keeps ticking and the exchange answers every     *)
(* request, every trade that enters active_orders eventually reaches a     *)
(* terminal state and leaves active_orders, also in runs that switch       *)
(* between dry-run and live.                                               *)
C39_ActiveTradeEventuallyTerminal ==
    \A i \in 1..MaxTrades :
       (i \in active_orders)
          ~> (/\ i \in DOMAIN trades /\ i \notin active_orders
              /\ trades[i].status \in TerminalStates)

(* C40: while the monitor keeps ticking, every Position is eventually      *)
(* removed once its market has settled, in live mode as well as in paper   *)
(* mode, so that Gates 3 and 7 do not refuse forever.                      *)
C40_SettledPositionEventuallyRemoved ==
    \A t \in Tickers :
       (positions[t].quantity > 0 /\ market[t].status = "settled")
          ~> (positions[t].quantity = 0)
====
